---- MODULE Spec2Model ----
(***************************************************************************)
(* Five components of the repository as state machines: the circuit        *)
(* breaker of shared/utils/circuit-breaker.ts, the service registry of     *)
(* apps/service-registry/src/main.ts, the registry client of               *)
(* shared/utils/registry.ts, the message bus client of shared/events and   *)
(* the heartbeat manager of shared/utils/heartbeat-manager.ts.  Each runs  *)
(* on a single JavaScript thread and                                       *)
(* its calls interleave at their await points, so every action below is    *)
(* the code between two awaits.  Each specification starts one component   *)
(* and leaves the others at rest.                                          *)
(*                                                                         *)
(* Times are milliseconds, as in the code; the clock advances in steps of  *)
(* one second.                                                             *)
(***************************************************************************)
EXTENDS Integers, Sequences, FiniteSets, Bags, TLC

VARIABLES
    options,          \* this.options, fixed by the constructor
    state,            \* this.state
    failures,         \* this.failures
    successCount,     \* this.successCount
    lastFailureTime,  \* this.lastFailureTime
    metrics,          \* this.metrics
    calls,            \* the execute() calls: one record per caller
    opCalls,          \* how often the wrapped operation has been invoked
    emitted,          \* the 'circuit-state-change' events of the last step
    pending,          \* redis SET commands issued and not yet settled
    store,            \* the value under circuit:state:<circuitId>
    history,          \* what has happened so far (read by the properties only)
    now,              \* Date.now()
    budget,           \* execute()/reset() calls the callers will still make
    twin,             \* a second run of the same breaker, fed the same calls
    hashes,           \* registry: the redis hashes service:<name>:<id>
    members,          \* registry: the redis sets services:<name>
    requests,         \* registry: the request handlers between two awaits
    sweep,            \* registry: the cleanup callback between two awaits
    reply,            \* registry: the response sent by the last step
    issued,           \* registry: how many ids uuidv4() has produced
    quota,            \* registry: requests the clients will still send
    trace,            \* registry: what has happened so far (read by the properties only)
    client,           \* registry client: the static fields of ServiceRegistryManager,
                      \* its requests in flight and its retry timers
    config,           \* registry client: config.SERVICE_REGISTRY of its process
    response,         \* registry client: the response the last step handled, or
                      \* what the call of the last step returned at once
    granted,          \* registry client: how many ids the registry has returned
    faults,           \* registry client: failures the registry will still answer
    errands,          \* registry client: register()/deregister() calls still to come
    evicted,          \* registry client: the ids a heartbeat was answered 404 for
    mq,               \* message bus: the fields of RabbitMQService and the listeners
                      \* of its event emitter
    broker,           \* message bus: the RabbitMQ server
    tasks,            \* message bus: the async calls between two awaits
    timers,           \* message bus: the reconnect timers that have not fired
    ledger,           \* message bus: calls still to come, and what has happened so
                      \* far (read by the properties only)
    manager           \* heartbeat manager: the fields of a HeartbeatManager, its
                      \* calls between two awaits, its requests in flight and its
                      \* retry timers

breakerVars == <<options, state, failures, successCount, lastFailureTime, metrics,
                 calls, opCalls, emitted, pending, store, history, budget, twin>>

registryVars == <<hashes, members, requests, sweep, reply, issued, quota, trace>>

clientVars == <<client, config, response, granted, faults, errands, evicted>>

busVars == <<mq, broker, tasks, timers, ledger>>

\* everything outside the circuit breaker
outsideBreaker == <<registryVars, clientVars, busVars, manager>>

\* everything outside the registry, but for the clock
outsideRegistry == <<breakerVars, clientVars, busVars, manager>>

vars == <<options, state, failures, successCount, lastFailureTime, metrics,
          calls, opCalls, emitted, pending, store, history, now, budget, twin,
          registryVars, clientVars, busVars, manager>>

(***************************************************************************)
(* Bounds of the model.                                                    *)
(***************************************************************************)
MaxTicks == 3
MaxCalls == 4
MaxVolume == 6
MaxMirrorCalls == 3

Callers == {"a", "b"}

\* lines 123-126: "Limit last failures to 10 entries"
LastFailuresLimit == 10

(***************************************************************************)
(* The service registry of apps/service-registry/src/main.ts at rest: its  *)
(* redis data is empty, no request is being handled, the cleanup timer has *)
(* not fired.  Keys are kept as the segments between their colons, so      *)
(* that "service:auth:v2:u1" is <<"service", "auth", "v2", "u1">>.         *)
(***************************************************************************)
\* the clients' connections, one request at a time each
Slots == {"p", "q"}

\* a redis database without keys
NoKeys == [k \in {} |-> {}]

\* what hgetall answers for a key that does not exist: {}
EmptyHash == [f \in {} |-> ""]

NoRequest ==
    [op |-> "none", pc |-> "none", name |-> <<>>, serviceId |-> "", status |-> "",
     serviceKey |-> <<>>, serviceInfo |-> EmptyHash, serviceIds |-> {}]

NoReply == [op |-> "none", code |-> 0, serviceId |-> "", services |-> {}]

NoSweep == [pc |-> "idle", serviceKeys |-> {}, now |-> 0, key |-> <<>>, due |-> 0]

NoTrace == [removed |-> {}, stopped |-> {}, sweptAt |-> 0]

RegistryOff ==
    /\ hashes = NoKeys
    /\ members = NoKeys
    /\ requests = [s \in Slots |-> NoRequest]
    /\ sweep = NoSweep
    /\ reply = NoReply
    /\ issued = 0
    /\ quota = 0
    /\ trace = NoTrace

(***************************************************************************)
(* The registry client of shared/utils/registry.ts before its first call:  *)
(* the static fields of ServiceRegistryManager as their initialisers leave *)
(* them, no request in flight, no timer set.  null is the empty string.    *)
(***************************************************************************)
\* registryConfig before register() has assigned it
NoConfig == [heartbeatInterval |-> 0, retryDelay |-> 0, maxRetries |-> 0]

\* the termination signals the client installs a handler for
Signals == {"SIGINT", "SIGTERM"}

\* a process that has called process.on() for no signal
NoListeners == [signal \in Signals |-> <<>>]

\* lines 24-29; posts, puts and deletes are the axios requests in flight,
\* timeouts the delays of the pending setTimeout callbacks, listeners the
\* handlers process.on() has added for each signal, in the order in which
\* they were added; exiting says that a signal handler of lines 98-108
\* awaits deregister(), exited that process.exit() has been called; left
\* says that deregister() has succeeded and the application has not called
\* register() since
NoClient ==
    [serviceId |-> "", heartbeatInterval |-> FALSE, retryCount |-> 0,
     isRegistering |-> FALSE, registryConfig |-> NoConfig,
     listeners |-> NoListeners, exiting |-> FALSE, exited |-> FALSE,
     posts |-> 0, puts |-> EmptyBag, deletes |-> 0, timeouts |-> EmptyBag,
     gets |-> 0, called |-> <<>>, left |-> FALSE]

ClientOff ==
    /\ client = NoClient
    /\ config = NoConfig
    /\ response = NoReply
    /\ granted = 0
    /\ faults = 0
    /\ errands = 0
    /\ evicted = {}

\* the fields of a RabbitMQService after its constructor (lines 43-52); a
\* connection or a channel is the number of the connection, 0 is null
NoService ==
    [connection |-> 0, channel |-> 0, initialized |-> FALSE, connecting |-> FALSE,
     reconnectTimeout |-> 0, reconnectAttempts |-> 0, eventListeners |-> {},
     watching |-> FALSE, connected |-> EmptyBag, reconnected |-> EmptyBag]

\* a server that nobody has connected to
NoBroker ==
    [connections |-> {}, accepted |-> 0, exchanges |-> {}, queues |-> {},
     bindings |-> {}, consumers |-> EmptyBag, arrived |-> 0, ready |-> {},
     unacked |-> {}, delivered |-> 0, deadLettered |-> 0]

NoLedger ==
    [calls |-> 0, losses |-> 0, refusals |-> 0, subscriptions |-> 0, published |-> 0,
     timers |-> 0, waits |-> 0, connected |-> 0, reconnected |-> 0,
     settled |-> <<>>, unsubscribed |-> {}]

\* a message bus client that nobody uses
BusOff ==
    /\ mq = NoService
    /\ broker = NoBroker
    /\ tasks = EmptyBag
    /\ timers = {}
    /\ ledger = NoLedger

\* the fields of a HeartbeatManager after its constructor (part_014 lines
\* 22-23); statuses, puts and timeouts count the sendHeartbeat() calls that
\* await statusGetter(), the requests in flight and the pending retry
\* timers; stopped says that stop() has returned and start() has not been
\* called since; inputs counts what is still to come from outside
NoManager ==
    [intervalId |-> FALSE, retryCount |-> 0, maxRetries |-> 0,
     statuses |-> 0, puts |-> 0, timeouts |-> 0, stopped |-> FALSE, inputs |-> 0]

ManagerOff == manager = NoManager

\* lines 44-53, with the thresholds and the times scaled down
BaseOptions ==
    [failureThreshold |-> 2, resetTimeout |-> 1000, timeout |-> 1000,
     successThreshold |-> 2, retryBackoff |-> "exponential", maxRetries |-> 1,
     metricsTracking |-> TRUE, distributedTracking |-> FALSE]

\* the breakers of Spec: one that opens at the second failure and never
\* retries, one that opens at the first failure and retries once
SpecOptions ==
    { [BaseOptions EXCEPT !.maxRetries = 0, !.successThreshold = 1],
      [BaseOptions EXCEPT !.failureThreshold = 1] }

NoCall ==
    [pc |-> "idle", attempt |-> 0, due |-> 0, result |-> "none",
     invocations |-> 0, counted |-> 0, seenState |-> "none"]

NoHistory == [consecutiveFailures |-> 0, halfOpenSuccesses |-> 0, failureLog |-> <<>>]

\* no value under the breaker's key yet
NoStore == [state |-> "none", timestamp |-> 0]

NoMetrics == [totalCalls |-> 0, successCalls |-> 0, failureCalls |-> 0, lastFailures |-> <<>>]

(***************************************************************************)
(* The breaker and its calls as one value, so that the methods below are   *)
(* functions from a run to the run after the method.                       *)
(***************************************************************************)
NewRun(cs) ==
    [state |-> "CLOSED", failures |-> 0, successCount |-> 0, lastFailureTime |-> 0,
     metrics |-> NoMetrics, calls |-> [c \in cs |-> NoCall], opCalls |-> 0,
     emitted |-> <<>>, pending |-> <<>>, store |-> NoStore, history |-> NoHistory]

Local ==
    [state |-> state, failures |-> failures, successCount |-> successCount,
     lastFailureTime |-> lastFailureTime, metrics |-> metrics, calls |-> calls,
     opCalls |-> opCalls, emitted |-> emitted, pending |-> pending, store |-> store,
     history |-> history]

Becomes(r) ==
    /\ state' = r.state
    /\ failures' = r.failures
    /\ successCount' = r.successCount
    /\ lastFailureTime' = r.lastFailureTime
    /\ metrics' = r.metrics
    /\ calls' = r.calls
    /\ opCalls' = r.opCalls
    /\ emitted' = r.emitted
    /\ pending' = r.pending
    /\ store' = r.store
    /\ history' = r.history

Starts(r) ==
    /\ state = r.state
    /\ failures = r.failures
    /\ successCount = r.successCount
    /\ lastFailureTime = r.lastFailureTime
    /\ metrics = r.metrics
    /\ calls = r.calls
    /\ opCalls = r.opCalls
    /\ emitted = r.emitted
    /\ pending = r.pending
    /\ store = r.store
    /\ history = r.history

\* a step starts with no event emitted yet
Fresh(r) == [r EXCEPT !.emitted = <<>>]

\* a breaker that nobody calls
BreakerOff ==
    /\ options = BaseOptions
    /\ Starts(NewRun({}))
    /\ budget = 0
    /\ twin = NewRun({})

(***************************************************************************)
(* The methods of CircuitBreaker.                                          *)
(***************************************************************************)
\* trackDistributedState up to its await: the SET command is issued
trackDistributedState(r, newState, t) ==
    IF ~options.distributedTracking THEN r
    ELSE [r EXCEPT !.pending = Append(@, [state |-> newState, timestamp |-> t])]

\* eventEmitter.emit('circuit-state-change', newState) with its listener
emitStateChange(r, newState, t) ==
    trackDistributedState([r EXCEPT !.emitted = Append(@, newState)], newState, t)

\* recordFailureMetrics evicting the entry it has just pushed
recordFailureMetricsDropNewest(r, failureContext) ==
    IF ~options.metricsTracking THEN r
    ELSE LET pushed == Append(r.metrics.lastFailures, failureContext)
         IN [r EXCEPT !.metrics.failureCalls = @ + 1,
                      !.metrics.lastFailures =
                          IF Len(pushed) > LastFailuresLimit
                          THEN SubSeq(pushed, 1, LastFailuresLimit) ELSE pushed,
                      !.history.failureLog = Append(@, failureContext)]

recordFailureMetrics(r, failureContext) ==
    IF ~options.metricsTracking THEN r
    ELSE LET pushed == Append(r.metrics.lastFailures, failureContext)
         IN [r EXCEPT !.metrics.failureCalls = @ + 1,
                      !.metrics.lastFailures =
                          IF Len(pushed) > LastFailuresLimit THEN Tail(pushed) ELSE pushed,
                      !.history.failureLog = Append(@, failureContext)]

calculateRetryDelay(attempt) ==
    IF options.retryBackoff = "linear" THEN attempt * 1000 ELSE (2 ^ attempt) * 1000

\* onSuccess closing one success late
onSuccessLate(r, t) ==
    LET h == [r EXCEPT !.history.consecutiveFailures = 0]
    IN IF h.state = "HALF_OPEN"
       THEN LET s == [h EXCEPT !.successCount = @ + 1, !.history.halfOpenSuccesses = @ + 1]
            IN IF s.successCount > options.successThreshold
               THEN emitStateChange(
                        [s EXCEPT !.state = "CLOSED", !.successCount = 0, !.failures = 0],
                        "CLOSED", t)
               ELSE s
       ELSE [h EXCEPT !.successCount = 0, !.failures = 0]

\* onSuccess counting towards closing in the OPEN state too
onSuccessWhileOpen(r, t) ==
    LET h == [r EXCEPT !.history.consecutiveFailures = 0]
    IN IF h.state \in {"HALF_OPEN", "OPEN"}
       THEN LET s == [h EXCEPT !.successCount = @ + 1, !.history.halfOpenSuccesses = @ + 1]
            IN IF s.successCount >= options.successThreshold
               THEN emitStateChange(
                        [s EXCEPT !.state = "CLOSED", !.successCount = 0, !.failures = 0],
                        "CLOSED", t)
               ELSE s
       ELSE [h EXCEPT !.successCount = 0, !.failures = 0]

onSuccess(r, t) ==
    LET h == [r EXCEPT !.history.consecutiveFailures = 0]
    IN IF h.state = "HALF_OPEN"
       THEN LET s == [h EXCEPT !.successCount = @ + 1, !.history.halfOpenSuccesses = @ + 1]
            IN IF s.successCount >= options.successThreshold
               THEN emitStateChange(
                        [s EXCEPT !.state = "CLOSED", !.successCount = 0, !.failures = 0],
                        "CLOSED", t)
               ELSE s
       ELSE [h EXCEPT !.successCount = 0, !.failures = 0]

\* onFailure opening one failure late
onFailureLate(r, t) ==
    LET f == [r EXCEPT !.failures = @ + 1, !.lastFailureTime = t, !.successCount = 0,
                       !.history.consecutiveFailures = @ + 1]
    IN IF f.failures > options.failureThreshold
       THEN emitStateChange([f EXCEPT !.state = "OPEN"], "OPEN", t)
       ELSE IF f.state = "HALF_OPEN" THEN [f EXCEPT !.state = "OPEN"] ELSE f

\* onFailure without its HALF_OPEN branch
onFailureThresholdOnly(r, t) ==
    LET f == [r EXCEPT !.failures = @ + 1, !.lastFailureTime = t, !.successCount = 0,
                       !.history.consecutiveFailures = @ + 1]
    IN IF f.failures >= options.failureThreshold
       THEN emitStateChange([f EXCEPT !.state = "OPEN"], "OPEN", t)
       ELSE f

\* onFailure leaving successCount as it is
onFailureKeepsSuccesses(r, t) ==
    LET f == [r EXCEPT !.failures = @ + 1, !.lastFailureTime = t,
                       !.history.consecutiveFailures = @ + 1]
    IN IF f.failures >= options.failureThreshold
       THEN emitStateChange([f EXCEPT !.state = "OPEN"], "OPEN", t)
       ELSE IF f.state = "HALF_OPEN" THEN [f EXCEPT !.state = "OPEN"] ELSE f

onFailure(r, t) ==
    LET f == [r EXCEPT !.failures = @ + 1, !.lastFailureTime = t, !.successCount = 0,
                       !.history.consecutiveFailures = @ + 1]
    IN IF f.failures >= options.failureThreshold
       THEN emitStateChange([f EXCEPT !.state = "OPEN"], "OPEN", t)
       ELSE IF f.state = "HALF_OPEN" THEN [f EXCEPT !.state = "OPEN"] ELSE f

\* a failed write taken for a failure of the operation
trackDistributedStateFailedCounts(r, t) == onFailure(r, t)

\* the catch block of trackDistributedState: the error is logged, no more
trackDistributedStateFailed(r, t) == r

\* lines 156-165: the operation is called and raced against the timeout
invoke(r, c, t) ==
    [r EXCEPT !.opCalls = @ + 1,
              !.calls[c].pc = "awaiting",
              !.calls[c].due = t + options.timeout,
              !.calls[c].invocations = @ + 1,
              !.calls[c].seenState = r.state]

finish(r, c, result) ==
    [r EXCEPT !.calls[c].pc = "idle", !.calls[c].attempt = 0, !.calls[c].due = 0,
              !.calls[c].result = result]

\* execute() rejecting also the call made exactly resetTimeout after the failure
executeBeginLate(r, c, t) ==
    LET r1 == [r EXCEPT !.metrics.totalCalls = @ + 1, !.calls[c] = NoCall]
    IN IF r1.state = "OPEN" /\ t - r1.lastFailureTime <= options.resetTimeout
       THEN finish(r1, c, "rejected")
       ELSE LET r2 == IF r1.state = "OPEN"
                      THEN emitStateChange([r1 EXCEPT !.state = "HALF_OPEN",
                                                      !.history.halfOpenSuccesses = 0],
                                           "HALF_OPEN", t)
                      ELSE r1
            IN IF 0 <= options.maxRetries THEN invoke(r2, c, t) ELSE finish(r2, c, "failed")

\* execute() up to its first await
executeBegin(r, c, t) ==
    LET r1 == [r EXCEPT !.metrics.totalCalls = @ + 1, !.calls[c] = NoCall]
    IN IF r1.state = "OPEN" /\ t - r1.lastFailureTime < options.resetTimeout
       THEN finish(r1, c, "rejected")
       ELSE LET r2 == IF r1.state = "OPEN"
                      THEN emitStateChange([r1 EXCEPT !.state = "HALF_OPEN",
                                                      !.history.halfOpenSuccesses = 0],
                                           "HALF_OPEN", t)
                      ELSE r1
            IN IF 0 <= options.maxRetries THEN invoke(r2, c, t) ELSE finish(r2, c, "failed")

\* lines 167-170: the operation won the race
executeSuccess(r, c, t) ==
    LET r1 == onSuccess(r, t)
    IN finish([r1 EXCEPT !.metrics.successCalls = @ + 1, !.calls[c].counted = @ + 1],
              c, "ok")

\* the catch block reporting every failed attempt to the state machine
executeCatchEager(r, c, error, t) ==
    LET failureContext == [error |-> error, timestamp |-> t, serviceId |-> "circuit"]
        r1 == recordFailureMetrics(r, failureContext)
        r2 == onFailure([r1 EXCEPT !.calls[c].counted =
                             @ + (r1.metrics.failureCalls - r.metrics.failureCalls)], t)
    IN IF r.calls[c].attempt = options.maxRetries
       THEN finish(r2, c, "failed")
       ELSE [r2 EXCEPT !.calls[c].pc = "sleeping",
                       !.calls[c].due = t + calculateRetryDelay(r.calls[c].attempt)]

\* lines 171-190: the operation rejected or the timeout won the race
executeCatch(r, c, error, t) ==
    LET failureContext == [error |-> error, timestamp |-> t, serviceId |-> "circuit"]
        r1 == recordFailureMetrics(r, failureContext)
        r2 == [r1 EXCEPT !.calls[c].counted =
                             @ + (r1.metrics.failureCalls - r.metrics.failureCalls)]
    IN IF r.calls[c].attempt = options.maxRetries
       THEN finish(onFailure(r2, t), c, "failed")
       ELSE [r2 EXCEPT !.calls[c].pc = "sleeping",
                       !.calls[c].due = t + calculateRetryDelay(r.calls[c].attempt)]

\* a retry counted as a call of its own
executeRetryCounted(r, c, t) ==
    invoke([r EXCEPT !.calls[c].attempt = @ + 1, !.metrics.totalCalls = @ + 1], c, t)

\* line 153: attempt++ after the backoff, and the next attempt
executeRetry(r, c, t) ==
    invoke([r EXCEPT !.calls[c].attempt = @ + 1], c, t)

\* reset() keeping the recent failures and the time of the last one
resetCounters(r, t) ==
    emitStateChange(
        [r EXCEPT !.state = "CLOSED", !.failures = 0, !.successCount = 0,
                  !.metrics = [NoMetrics EXCEPT !.lastFailures = r.metrics.lastFailures],
                  !.history = NoHistory],
        "CLOSED", t)

reset(r, t) ==
    emitStateChange(
        [r EXCEPT !.state = "CLOSED", !.failures = 0, !.successCount = 0,
                  !.lastFailureTime = 0, !.metrics = NoMetrics, !.history = NoHistory],
        "CLOSED", t)

(***************************************************************************)
(* The steps of one run: what a caller, the operation, a timer or the      *)
(* redis server can make happen, and when.                                 *)
(***************************************************************************)
CanBegin(r, c) == c \in DOMAIN r.calls /\ r.calls[c].pc = "idle"
CanSettle(r, c) == c \in DOMAIN r.calls /\ r.calls[c].pc = "awaiting"
CanRetry(r, c, t) == c \in DOMAIN r.calls /\ r.calls[c].pc = "sleeping" /\ r.calls[c].due <= t

\* how the race of line 162 can end: the timer of line 158 fires no sooner
\* than options.timeout after the attempt began
Outcomes(r, c, t) == {"ok", "rejected"} \cup (IF r.calls[c].due <= t THEN {"timeout"} ELSE {})

settle(r, c, outcome, t) ==
    IF outcome = "ok" THEN executeSuccess(r, c, t) ELSE executeCatch(r, c, outcome, t)

\* the redis server answers the oldest command
storeWritten(r) ==
    [r EXCEPT !.pending = Tail(@), !.store = Head(r.pending)]

\* the oldest command fails and the awaiting trackDistributedState catches it
storeFailed(r, t) ==
    trackDistributedStateFailed([r EXCEPT !.pending = Tail(@)], t)

\* the same step in the second run
twinBegin(c) == IF CanBegin(twin, c) THEN executeBegin(Fresh(twin), c, now) ELSE twin
twinSettle(c, o) == IF CanSettle(twin, c) THEN settle(Fresh(twin), c, o, now) ELSE twin
twinRetry(c) == IF CanRetry(twin, c, now) THEN executeRetry(Fresh(twin), c, now) ELSE twin

(***************************************************************************)
(* Actions.                                                                *)
(***************************************************************************)
Spend == budget > 0 /\ budget' = budget - 1

Begins(c) ==
    /\ CanBegin(Local, c)
    /\ Spend
    /\ Becomes(executeBegin(Fresh(Local), c, now))
    /\ UNCHANGED <<options, now>>
    /\ UNCHANGED outsideBreaker

Settles(c, o) ==
    /\ CanSettle(Local, c)
    /\ o \in Outcomes(Local, c, now)
    /\ Becomes(settle(Fresh(Local), c, o, now))
    /\ UNCHANGED <<options, now, budget>>
    /\ UNCHANGED outsideBreaker

Retries(c) ==
    /\ CanRetry(Local, c, now)
    /\ Becomes(executeRetry(Fresh(Local), c, now))
    /\ UNCHANGED <<options, now, budget>>
    /\ UNCHANGED outsideBreaker

Resets ==
    /\ Spend
    /\ Becomes(reset(Fresh(Local), now))
    /\ UNCHANGED <<options, now>>
    /\ UNCHANGED outsideBreaker

Execute(c) == Begins(c) /\ UNCHANGED twin

Settle(c) == \E o \in {"ok", "rejected", "timeout"} : Settles(c, o) /\ UNCHANGED twin

Retry(c) == Retries(c) /\ UNCHANGED twin

Reset == Resets /\ UNCHANGED twin

\* a request handler or a cleanup run of the registry takes far less than a
\* second: the clock does not advance while one is in progress
Tick ==
    /\ now < 1000 * MaxTicks
    /\ sweep.pc = "idle"
    /\ \A s \in Slots : requests[s].op = "none"
    /\ now' = now + 1000
    /\ UNCHANGED <<options, state, failures, successCount, lastFailureTime, metrics,
                   calls, opCalls, emitted, pending, store, history, budget, twin>>
    /\ UNCHANGED outsideBreaker

\* the two runs take the same step
MirrorExecute(c) == Begins(c) /\ twin' = twinBegin(c)

MirrorSettle(c) ==
    \E o \in {"ok", "rejected", "timeout"} : Settles(c, o) /\ twin' = twinSettle(c, o)

MirrorRetry(c) == Retries(c) /\ twin' = twinRetry(c)

MirrorReset == Resets /\ twin' = reset(Fresh(twin), now)

\* each run has its own redis server
StoreWritten ==
    /\ pending # <<>>
    /\ Becomes(storeWritten(Local))
    /\ UNCHANGED <<options, now, budget, twin>>
    /\ UNCHANGED outsideBreaker

StoreFailed ==
    /\ pending # <<>>
    /\ Becomes(storeFailed(Local, now))
    /\ UNCHANGED <<options, now, budget, twin>>
    /\ UNCHANGED outsideBreaker

TwinStoreWritten ==
    /\ twin.pending # <<>>
    /\ twin' = storeWritten(twin)
    /\ UNCHANGED <<options, state, failures, successCount, lastFailureTime, metrics,
                   calls, opCalls, emitted, pending, store, history, now, budget>>
    /\ UNCHANGED outsideBreaker

TwinStoreFailed ==
    /\ twin.pending # <<>>
    /\ twin' = storeFailed(twin, now)
    /\ UNCHANGED <<options, state, failures, successCount, lastFailureTime, metrics,
                   calls, opCalls, emitted, pending, store, history, now, budget>>
    /\ UNCHANGED outsideBreaker

(***************************************************************************)
(* Spec: two callers, whose execute() calls interleave, and reset().       *)
(***************************************************************************)
Init ==
    /\ options \in SpecOptions
    /\ Starts(NewRun(Callers))
    /\ now = 1000
    /\ budget = MaxCalls
    /\ twin = NewRun({})
    /\ RegistryOff
    /\ ClientOff
    /\ BusOff
    /\ ManagerOff

Next ==
    \/ \E c \in Callers : Execute(c)
    \/ \E c \in Callers : Settle(c)
    \/ \E c \in Callers : Retry(c)
    \/ Reset
    \/ Tick

Spec == Init /\ [][Next]_vars

(***************************************************************************)
(* SpecVolume: one caller and a breaker that stays closed, so that the     *)
(* failures of many calls and retries accumulate.                          *)
(***************************************************************************)
VolumeOptions ==
    { [BaseOptions EXCEPT !.failureThreshold = MaxVolume + 1, !.timeout = 10000,
                          !.retryBackoff = "linear"] }

InitVolume ==
    /\ options \in VolumeOptions
    /\ Starts(NewRun({"a"}))
    /\ now = 1000
    /\ budget = MaxVolume
    /\ twin = NewRun({})
    /\ RegistryOff
    /\ ClientOff
    /\ BusOff
    /\ ManagerOff

NextVolume ==
    \/ Execute("a")
    \/ Settle("a")
    \/ Retry("a")
    \/ Reset
    \/ Tick

SpecVolume == InitVolume /\ [][NextVolume]_vars

(***************************************************************************)
(* SpecMirror: distributed tracking on, and two runs of the breaker that   *)
(* get the same calls, outcomes and clock, each with a redis server of its *)
(* own that answers, fails or stays silent.                                *)
(***************************************************************************)
MirrorOptions ==
    { [BaseOptions EXCEPT !.failureThreshold = 1, !.distributedTracking = TRUE] }

InitMirror ==
    /\ options \in MirrorOptions
    /\ Starts(NewRun({"a"}))
    /\ now = 1000
    /\ budget = MaxMirrorCalls
    /\ twin = NewRun({"a"})
    /\ RegistryOff
    /\ ClientOff
    /\ BusOff
    /\ ManagerOff

NextMirror ==
    \/ MirrorExecute("a")
    \/ MirrorSettle("a")
    \/ MirrorRetry("a")
    \/ MirrorReset
    \/ StoreWritten
    \/ StoreFailed
    \/ TwinStoreWritten
    \/ TwinStoreFailed
    \/ Tick

SpecMirror == InitMirror /\ [][NextMirror]_vars

(***************************************************************************)
(* SpecTracking: distributed tracking on and two callers whose execute()   *)
(* calls interleave, with the redis server answering or failing the SET    *)
(* commands in the order they were issued.                                 *)
(***************************************************************************)
TrackingOptions ==
    { [o EXCEPT !.distributedTracking = TRUE] : o \in SpecOptions }

InitTracking ==
    /\ options \in TrackingOptions
    /\ Starts(NewRun(Callers))
    /\ now = 1000
    /\ budget = MaxCalls
    /\ twin = NewRun({})
    /\ RegistryOff
    /\ ClientOff
    /\ BusOff
    /\ ManagerOff

NextTracking ==
    \/ \E c \in Callers : Execute(c)
    \/ \E c \in Callers : Settle(c)
    \/ \E c \in Callers : Retry(c)
    \/ Reset
    \/ StoreWritten
    \/ StoreFailed
    \/ Tick

SpecTracking == InitTracking /\ [][NextTracking]_vars

(***************************************************************************)
(* Properties of the breaker.                                              *)
(***************************************************************************)
Failed == {"rejected", "timeout"}

\* the call of d at time t would be turned away without reaching the operation
Rejects(r, d, t) ==
    LET after == executeBegin(Fresh(r), d, t)
    IN after.calls[d].result = "rejected" /\ after.calls[d].pc = "idle"
       /\ after.opCalls = r.opCalls

\* the final attempt of a call: its failure is the call's failure
LastAttempt(c) == calls[c].attempt = options.maxRetries

\* C1: once failureThreshold calls in a row have reported failure, an
\* execute() issued less than resetTimeout after the last of them is
\* rejected, and the operation's invocation count stays as it was.
C1_RejectedAfterThreshold ==
    [][\A c \in Callers :
          (/\ Begins(c)
           /\ history.consecutiveFailures >= options.failureThreshold
           /\ now - lastFailureTime < options.resetTimeout)
          => (/\ calls'[c].result = "rejected"
              /\ calls'[c].pc = "idle"
              /\ opCalls' = opCalls)]_vars

C1_Witness ==
    /\ options.failureThreshold = 2
    /\ history.consecutiveFailures = 2
    /\ metrics.totalCalls = 3
    /\ opCalls = 2
    /\ \E c \in Callers : calls[c].result = "rejected"

\* C2: while Open, an execute() issued before resetTimeout has elapsed since
\* lastFailureTime is rejected and the operation is not invoked; one issued
\* from then on makes the breaker Half-Open and then invokes the operation,
\* which sees the breaker Half-Open.
C2_OpenWindow ==
    [][\A c \in Callers :
          (Begins(c) /\ state = "OPEN")
          => IF now - lastFailureTime < options.resetTimeout
             THEN /\ calls'[c].result = "rejected"
                  /\ calls'[c].pc = "idle"
                  /\ opCalls' = opCalls
                  /\ state' = "OPEN"
             ELSE /\ state' = "HALF_OPEN"
                  /\ opCalls' = opCalls + 1
                  /\ calls'[c].pc = "awaiting"
                  /\ calls'[c].seenState = "HALF_OPEN"]_vars

C2_Witness ==
    /\ state = "HALF_OPEN"
    /\ now - lastFailureTime = options.resetTimeout
    /\ \E c, d \in Callers :
          /\ calls[c].result = "rejected"
          /\ calls[d].pc = "awaiting"
          /\ calls[d].seenState = "HALF_OPEN"

\* C3: while Half-Open, the success that completes successThreshold
\* successes in a row closes the breaker with failures = 0 and
\* successCount = 0; an earlier success leaves it Half-Open, counting.
C3_HalfOpenCloses ==
    [][/\ \A c \in Callers :
             (Settles(c, "ok") /\ state = "HALF_OPEN")
             => IF history.halfOpenSuccesses + 1 >= options.successThreshold
                THEN state' = "CLOSED" /\ failures' = 0 /\ successCount' = 0
                ELSE state' = "HALF_OPEN"
       /\ state' = "HALF_OPEN"
             => /\ successCount' = history'.halfOpenSuccesses
                /\ successCount' < options.successThreshold]_vars

C3_Witness ==
    /\ options.successThreshold = 2
    /\ history.halfOpenSuccesses = 2
    /\ state = "CLOSED"
    /\ emitted = <<"CLOSED">>
    /\ failures = 0
    /\ successCount = 0

\* C4: while Half-Open, a call that reports failure opens the breaker at
\* once, whatever the failures counter holds, and a call issued right then
\* is rejected.
C4_HalfOpenFailureOpens ==
    [][\A c \in Callers : \A e \in Failed :
          (Settles(c, e) /\ LastAttempt(c) /\ state = "HALF_OPEN")
          => /\ state' = "OPEN"
             /\ lastFailureTime' = now
             /\ \A d \in Callers : CanBegin(Local', d) => Rejects(Local', d, now)]_vars

C4_Witness ==
    /\ state = "OPEN"
    /\ emitted = <<>>
    /\ failures >= 1
    /\ failures < options.failureThreshold
    /\ history.consecutiveFailures >= 1
    /\ lastFailureTime = now

\* C5: one execute() invokes the operation at most maxRetries + 1 times; a
\* successful attempt ends the call with success; a failed attempt (a
\* timeout included) reaches the state machine, raising failures by one,
\* only when it is attempt maxRetries + 1, and otherwise leaves state,
\* failures and lastFailureTime alone and is retried.
C5_RetryThenReport ==
    [][/\ \A c \in Callers : calls'[c].invocations <= options.maxRetries + 1
       /\ \A c \in Callers :
             Settles(c, "ok")
             => /\ calls'[c].pc = "idle"
                /\ calls'[c].result = "ok"
                /\ history'.consecutiveFailures = 0
       /\ \A c \in Callers : \A e \in Failed :
             Settles(c, e)
             => IF calls[c].invocations = options.maxRetries + 1
                THEN /\ failures' = failures + 1
                     /\ calls'[c].pc = "idle"
                     /\ calls'[c].result = "failed"
                ELSE /\ failures' = failures
                     /\ state' = state
                     /\ lastFailureTime' = lastFailureTime
                     /\ calls'[c].pc = "sleeping"
       /\ failures' > failures
             => \E c \in Callers : \E e \in Failed :
                   Settles(c, e) /\ calls[c].invocations = options.maxRetries + 1]_vars

C5_Witness ==
    /\ options.maxRetries = 1
    /\ failures = 1
    /\ opCalls = 2
    /\ \E c \in Callers : calls[c].result = "failed" /\ calls[c].invocations = 2
    /\ \E i \in DOMAIN history.failureLog : history.failureLog[i].error = "timeout"

\* C6 as claimed: every attempt at the operation, each retry included, raises
\* metrics.totalCalls by one.
C6_EveryAttemptCounted ==
    [][opCalls' = opCalls + 1 => metrics'.totalCalls = metrics.totalCalls + 1]_vars

\* C6, amended: every execute() call raises metrics.totalCalls by one, also
\* the call rejected while Open, and no attempt, retry or outcome changes it.
C6_EveryCallCounted ==
    [][/\ \A c \in Callers : Begins(c) => metrics'.totalCalls = metrics.totalCalls + 1
       /\ \A c \in Callers : Retries(c) => metrics'.totalCalls = metrics.totalCalls
       /\ \A c \in Callers : \A o \in Failed \cup {"ok"} :
             Settles(c, o) => metrics'.totalCalls = metrics.totalCalls]_vars

C6_Witness ==
    /\ metrics.totalCalls = 2
    /\ opCalls = 2
    /\ \E c, d \in Callers :
          /\ calls[c].result = "rejected"
          /\ calls[d].invocations = 2

\* C7: a finished call that ran the operation has raised exactly one of
\* successCalls and failureCalls, by exactly one, whatever its retries.
C7_OneOutcomeCounted ==
    \A c \in Callers :
        (calls[c].pc = "idle" /\ calls[c].result \in {"ok", "failed"})
        => calls[c].counted = 1

\* the last n entries of a sequence
LastOf(seq, n) ==
    IF Len(seq) <= n THEN seq ELSE SubSeq(seq, Len(seq) - n + 1, Len(seq))

\* C8: metrics.lastFailures holds at most 10 entries, and they are the most
\* recent recorded failures in the order they happened.
C8_LastFailuresBounded ==
    /\ Len(metrics.lastFailures) <= 10
    /\ metrics.lastFailures = LastOf(history.failureLog, 10)

C8_Witness ==
    /\ Len(history.failureLog) = 11
    /\ Len(metrics.lastFailures) = 10
    /\ history.failureLog[1].timestamp < history.failureLog[11].timestamp
    /\ metrics.lastFailures[1] = history.failureLog[2]

\* C9: reset() leaves the breaker Closed with failures, successCount and
\* lastFailureTime 0 and the metrics zeroed and empty, and emits one
\* state-change notification, which carries CLOSED.
C9_ResetZeroes ==
    [][Resets
       => /\ state' = "CLOSED"
          /\ failures' = 0
          /\ successCount' = 0
          /\ lastFailureTime' = 0
          /\ metrics' = [totalCalls |-> 0, successCalls |-> 0, failureCalls |-> 0,
                         lastFailures |-> <<>>]
          /\ emitted' = <<"CLOSED">>]_vars

C9_Witness ==
    /\ state = "CLOSED"
    /\ lastFailureTime = 0
    /\ metrics.totalCalls = 0
    /\ metrics.lastFailures = <<>>
    /\ emitted = <<"CLOSED">>
    /\ \E c \in Callers : calls[c].result = "rejected"
    /\ \E c \in Callers : calls[c].pc = "awaiting"

\* what a run holds apart from the shared store
LocalView(r) ==
    [state |-> r.state, failures |-> r.failures, successCount |-> r.successCount,
     lastFailureTime |-> r.lastFailureTime, metrics |-> r.metrics, calls |-> r.calls,
     opCalls |-> r.opCalls]

\* C10: two runs that get the same calls and outcomes agree on state,
\* failures, successCount, metrics and every call's result, whatever their
\* redis servers do with the writes.
C10_StoreIndependent == LocalView(Local) = LocalView(twin)

C10_Witness ==
    /\ state = "HALF_OPEN"
    /\ store.state = "OPEN"
    /\ pending # <<>>
    /\ twin.store = NoStore
    /\ twin.pending = <<>>

(***************************************************************************)
(* The service registry: POST /register, PUT /heartbeat/:serviceId,        *)
(* GET /services, DELETE /services/:serviceId and the cleanup timer.       *)
(* The handlers share one redis connection, so the commands take effect in *)
(* the order in which they are issued; a handler runs until its next       *)
(* await, and other handlers run between its steps.  Redis answers every   *)
(* command.                                                                *)
(***************************************************************************)
MaxRequests == 4
MaxSweepRequests == 2

\* service names, as the segments that split(':') finds in them
Names == { <<"auth">>, <<"auth", "v2">> }

\* uuidv4() never produces the same id twice
Uuid == <<"u1", "u2", "u3", "u4", "u5", "u6", "u7", "u8">>

\* the status a heartbeat reports
Statuses == {"UP", "STOPPING"}

\* config.SERVICE_REGISTRY, with the times scaled down
SERVICE_REGISTRY == [ttl |-> 500, retryDelay |-> 250, maxRetries |-> 2]

maxHeartbeatAge ==
    SERVICE_REGISTRY.ttl + SERVICE_REGISTRY.retryDelay * SERVICE_REGISTRY.maxRetries

cleanupInterval ==
    IF 60000 < maxHeartbeatAge \div 2 THEN 60000 ELSE maxHeartbeatAge \div 2

\* the bodies of POST /register: complete ones, and ones with a field missing
Bodies ==
    { [name |-> n, host |-> "h1", port |-> 3001] : n \in Names }
      \cup { [name |-> <<>>, host |-> "h1", port |-> 3001],
             [name |-> <<"auth">>, host |-> "", port |-> 3001],
             [name |-> <<"auth">>, host |-> "h1", port |-> 0] }

\* the ids a client can put into the path: the ones that a 201 response has
\* handed out so far, and the one-character id "*"
ReqIds ==
    ({ Uuid[i] : i \in 1..issued }
        \ { requests[s].serviceId : s \in { x \in Slots : requests[x].op = "register" } })
      \cup {"*"}

\* { ...a, ...b }
Spread(a, b) ==
    [f \in DOMAIN a \cup DOMAIN b |-> IF f \in DOMAIN b THEN b[f] ELSE a[f]]

\* redis commands, as functions of the data
hgetall(h, key) == IF key \in DOMAIN h THEN h[key] ELSE EmptyHash

hset(h, key, obj) ==
    [k \in DOMAIN h \cup {key} |-> IF k = key THEN Spread(hgetall(h, key), obj) ELSE h[k]]

del(h, key) == [k \in DOMAIN h \ {key} |-> h[k]]

\* a key matches "service:*" or "service:*:<id>"; the * of a pattern stands
\* for any text, colons included
glob(key, pattern) ==
    /\ Len(key) >= Len(pattern)
    /\ key[1] = pattern[1]
    /\ pattern[Len(pattern)] \in {"*", key[Len(key)]}

keys(h, pattern) == { k \in DOMAIN h : glob(k, pattern) }

smembers(m, name) == IF name \in DOMAIN m THEN m[name] ELSE {}

saddElsewhere(m, name, id) == m

sadd(m, name, id) ==
    [n \in DOMAIN m \cup {name} |-> IF n = name THEN smembers(m, name) \cup {id} ELSE m[n]]

\* a set that becomes empty is no longer a key
srem(m, name, id) ==
    LET rest == smembers(m, name) \ {id}
    IN  [n \in (DOMAIN m \ {name}) \cup (IF rest = {} THEN {} ELSE {name}) |->
            IF n = name THEN rest ELSE m[n]]

\* `service:${name}:${serviceId}` and key.split(':')
serviceKey(name, serviceId) == <<"service">> \o name \o <<serviceId>>

split(key) == key

\* req.body without name, host or port
missing(body) == body.name = <<>> \/ body.host = "" \/ body.port = 0

\* the filter of GET /services
anyStatus(service) == "status" \in DOMAIN service

up(service) == "status" \in DOMAIN service /\ service.status = "UP"

\* the test of the cleanup loop; lastHeartbeat is kept in milliseconds
expiredLate(serviceInfo, t) == t - serviceInfo.lastHeartbeat > maxHeartbeatAge + 1000

expired(serviceInfo, t) == t - serviceInfo.lastHeartbeat > maxHeartbeatAge

\* a request takes the first connection that is not busy
Free(s) ==
    /\ requests[s].op = "none"
    /\ s = "q" => requests["p"].op # "none"

Send == quota > 0 /\ quota' = quota - 1

Answer(op, code, serviceId, services) ==
    [op |-> op, code |-> code, serviceId |-> serviceId, services |-> services]

\* POST /register up to the first await: lines 34-58
Register(s) ==
    \E body \in Bodies :
        /\ Free(s)
        /\ Send
        /\ issued < Len(Uuid)
        /\ IF missing(body)
           THEN /\ reply' = Answer("register", 400, "", {})
                /\ UNCHANGED <<hashes, requests, issued>>
           ELSE LET serviceId == Uuid[issued + 1]
                    serviceInfo ==
                        Spread(EmptyHash,
                               [id |-> serviceId, name |-> body.name, host |-> body.host,
                                port |-> body.port, status |-> "UP",
                                lastHeartbeat |-> now])
                IN  /\ hashes' = hset(hashes, serviceKey(body.name, serviceId), serviceInfo)
                    /\ issued' = issued + 1
                    /\ requests' = [requests EXCEPT ![s] =
                           [NoRequest EXCEPT !.op = "register", !.pc = "sadd",
                                             !.name = body.name, !.serviceId = serviceId,
                                             !.serviceInfo = serviceInfo]]
                    /\ reply' = NoReply
        /\ UNCHANGED <<members, sweep, trace, now>>
        /\ UNCHANGED outsideRegistry

\* lines 60-66
Registered(s) ==
    /\ requests[s].op = "register"
    /\ members' = sadd(members, requests[s].name, requests[s].serviceId)
    /\ reply' = Answer("register", 201, requests[s].serviceId, {requests[s].serviceInfo})
    /\ requests' = [requests EXCEPT ![s] = NoRequest]
    /\ UNCHANGED <<hashes, sweep, issued, quota, trace, now>>
    /\ UNCHANGED outsideRegistry

\* PUT /heartbeat/:serviceId, lines 70-82
Heartbeat(s) ==
    \E serviceId \in ReqIds, status \in Statuses :
        /\ Free(s)
        /\ Send
        /\ LET serviceKeys == keys(hashes, <<"service", "*", serviceId>>)
           IN  IF serviceKeys = {}
               THEN /\ reply' = Answer("heartbeat", 404, serviceId, {})
                    /\ UNCHANGED requests
               ELSE /\ reply' = NoReply
                    /\ \E key \in serviceKeys :
                          requests' = [requests EXCEPT ![s] =
                              [NoRequest EXCEPT !.op = "heartbeat", !.pc = "hgetall",
                                                !.serviceId = serviceId, !.status = status,
                                                !.serviceKey = key]]
        /\ UNCHANGED <<hashes, members, sweep, issued, trace, now>>
        /\ UNCHANGED outsideRegistry

\* lines 82-86: hgetall answers {} for a key that is gone, and {} is truthy
HeartbeatRead(s) ==
    /\ requests[s].op = "heartbeat"
    /\ requests[s].pc = "hgetall"
    /\ requests' = [requests EXCEPT ![s].pc = "hset",
                                    ![s].serviceInfo = hgetall(hashes, requests[s].serviceKey)]
    /\ reply' = NoReply
    /\ UNCHANGED <<hashes, members, sweep, issued, quota, trace, now>>
    /\ UNCHANGED outsideRegistry

\* lines 89-95
HeartbeatWritten(s) ==
    /\ requests[s].op = "heartbeat"
    /\ requests[s].pc = "hset"
    /\ hashes' = hset(hashes, requests[s].serviceKey,
                      Spread(requests[s].serviceInfo,
                             [status |-> requests[s].status, lastHeartbeat |-> now]))
    /\ reply' = Answer("heartbeat", 200, requests[s].serviceId, {})
    /\ requests' = [requests EXCEPT ![s] = NoRequest]
    /\ trace' = [trace EXCEPT !.stopped =
                     IF requests[s].status = "UP" THEN @
                     ELSE @ \cup {requests[s].serviceKey[Len(requests[s].serviceKey)]}]
    /\ UNCHANGED <<members, sweep, issued, quota, now>>
    /\ UNCHANGED outsideRegistry

\* GET /services: the keys it reads (lines 104-107 and 116) and what it
\* answers from them (lines 105-112 and 117-124)
lookup(m, h, name) ==
    IF name # <<>>
    THEN { serviceKey(name, id) : id \in smembers(m, name) }
    ELSE keys(h, <<"service", "*">>)

servicesAny(h, serviceKeys) ==
    { service \in { hgetall(h, k) : k \in serviceKeys } : anyStatus(service) }

services(h, serviceKeys) ==
    { service \in { hgetall(h, k) : k \in serviceKeys } : up(service) }

\* GET /services, lines 99-104 and 115-116
Discover(s) ==
    \E name \in Names \cup {<<>>} :
        /\ Free(s)
        /\ Send
        /\ requests' = [requests EXCEPT ![s] =
               [NoRequest EXCEPT !.op = "discover", !.pc = "hgetall", !.name = name,
                                 !.serviceIds = lookup(members, hashes, name)]]
        /\ reply' = NoReply
        /\ UNCHANGED <<hashes, members, sweep, issued, trace, now>>
        /\ UNCHANGED outsideRegistry

\* lines 105-112 and 117-124: the hgetall commands are issued together
Discovered(s) ==
    /\ requests[s].op = "discover"
    /\ reply' = Answer("discover", 200, "", services(hashes, requests[s].serviceIds))
    /\ requests' = [requests EXCEPT ![s] = NoRequest]
    /\ UNCHANGED <<hashes, members, sweep, issued, quota, trace, now>>
    /\ UNCHANGED outsideRegistry

\* DELETE /services/:serviceId, lines 128-142
Deregister(s) ==
    \E serviceId \in ReqIds :
        /\ Free(s)
        /\ Send
        /\ LET serviceKeys == keys(hashes, <<"service", "*", serviceId>>)
           IN  IF serviceKeys = {}
               THEN /\ reply' = Answer("deregister", 404, serviceId, {})
                    /\ UNCHANGED <<requests, members>>
               ELSE /\ reply' = NoReply
                    /\ \E key \in serviceKeys :
                          /\ requests' = [requests EXCEPT ![s] =
                                 [NoRequest EXCEPT !.op = "deregister", !.pc = "del",
                                                   !.serviceId = serviceId,
                                                   !.serviceKey = key]]
                          /\ members' = srem(members, <<split(key)[2]>>, serviceId)
        /\ UNCHANGED <<hashes, sweep, issued, trace, now>>
        /\ UNCHANGED outsideRegistry

\* lines 143-145
Deregistered(s) ==
    /\ requests[s].op = "deregister"
    /\ hashes' = del(hashes, requests[s].serviceKey)
    /\ reply' = Answer("deregister", 200, requests[s].serviceId, {})
    /\ requests' = [requests EXCEPT ![s] = NoRequest]
    /\ trace' = [trace EXCEPT !.removed = @ \cup {requests[s].serviceId}]
    /\ UNCHANGED <<members, sweep, issued, quota, now>>
    /\ UNCHANGED outsideRegistry

\* the cleanup timer fires: line 159
Sweep ==
    /\ sweep.pc = "idle"
    /\ now >= sweep.due
    /\ sweep' = [sweep EXCEPT !.pc = "keys",
                              !.serviceKeys = keys(hashes, <<"service", "*">>),
                              !.due = now + cleanupInterval]
    /\ reply' = NoReply
    /\ UNCHANGED <<hashes, members, requests, issued, quota, trace, now>>
    /\ UNCHANGED outsideRegistry

\* the loop is over: the timer waits for its next turn
ended(sw) == [sw EXCEPT !.pc = "idle", !.serviceKeys = {}, !.key = <<>>]

\* lines 160-167: Date.now() is read once, before the loop; each turn of
\* the loop reads one key, in the order redis listed them
SweepRead ==
    /\ sweep.pc \in {"keys", "loop"}
    /\ LET t == IF sweep.pc = "keys" THEN now ELSE sweep.now
       IN  IF sweep.serviceKeys = {}
           THEN /\ sweep' = [ended(sweep) EXCEPT !.now = t]
                /\ trace' = [trace EXCEPT !.sweptAt = t]
           ELSE /\ \E key \in sweep.serviceKeys :
                      LET serviceInfo == hgetall(hashes, key)
                          rest == sweep.serviceKeys \ {key}
                      IN  sweep' = [sweep EXCEPT
                              !.now = t,
                              !.serviceKeys = rest,
                              !.key = key,
                              !.pc = IF "lastHeartbeat" \in DOMAIN serviceInfo
                                        /\ expired(serviceInfo, t)
                                     THEN "srem" ELSE "loop"]
                /\ UNCHANGED trace
    /\ reply' = NoReply
    /\ UNCHANGED <<hashes, members, requests, issued, quota, now>>
    /\ UNCHANGED outsideRegistry

\* lines 168-171
SweepUnindexed ==
    /\ sweep.pc = "srem"
    /\ members' = srem(members, <<split(sweep.key)[2]>>, split(sweep.key)[3])
    /\ sweep' = [sweep EXCEPT !.pc = "del"]
    /\ reply' = NoReply
    /\ UNCHANGED <<hashes, requests, issued, quota, trace, now>>
    /\ UNCHANGED outsideRegistry

\* line 172
SweepDeleted ==
    /\ sweep.pc = "del"
    /\ hashes' = del(hashes, sweep.key)
    /\ sweep' = [sweep EXCEPT !.pc = "loop"]
    /\ reply' = NoReply
    /\ UNCHANGED <<members, requests, issued, quota, trace, now>>
    /\ UNCHANGED outsideRegistry

(***************************************************************************)
(* SpecRegistry: two clients send requests, whose handlers interleave.     *)
(***************************************************************************)
RegistryAt(t, n) ==
    /\ BreakerOff
    /\ ClientOff
    /\ BusOff
    /\ ManagerOff
    /\ now = t
    /\ hashes = NoKeys
    /\ members = NoKeys
    /\ requests = [s \in Slots |-> NoRequest]
    /\ sweep = [NoSweep EXCEPT !.due = t + cleanupInterval]
    /\ reply = NoReply
    /\ issued = 0
    /\ quota = n
    /\ trace = NoTrace

InitRegistry == RegistryAt(1000, MaxRequests)

NextRegistry ==
    \/ \E s \in Slots : Register(s)
    \/ \E s \in Slots : Registered(s)
    \/ \E s \in Slots : Heartbeat(s)
    \/ \E s \in Slots : HeartbeatRead(s)
    \/ \E s \in Slots : HeartbeatWritten(s)
    \/ \E s \in Slots : Discover(s)
    \/ \E s \in Slots : Discovered(s)
    \/ \E s \in Slots : Deregister(s)
    \/ \E s \in Slots : Deregistered(s)

SpecRegistry == InitRegistry /\ [][NextRegistry]_vars

(***************************************************************************)
(* SpecSweep: one client sends requests while the clock advances and the   *)
(* cleanup timer fires.                                                    *)
(***************************************************************************)
InitSweep == RegistryAt(1000, MaxSweepRequests)

NextSweep ==
    \/ Register("p")
    \/ Registered("p")
    \/ Heartbeat("p")
    \/ HeartbeatRead("p")
    \/ HeartbeatWritten("p")
    \/ Discover("p")
    \/ Discovered("p")
    \/ Deregister("p")
    \/ Deregistered("p")
    \/ Sweep
    \/ SweepRead
    \/ SweepUnindexed
    \/ SweepDeleted
    \/ Tick

SpecSweep == InitSweep /\ [][NextSweep]_vars

(***************************************************************************)
(* Properties of the registry service.                                     *)
(***************************************************************************)
\* the keys of the records stored for an id, under any name
storedFor(serviceId) == { k \in DOMAIN hashes : k[Len(k)] = serviceId }

\* C11: a heartbeat for an id under which no instance is stored is answered
\* 404 by its first step and goes no further, so it changes neither the
\* records nor an index.
C11_UnknownHeartbeatNotFound ==
    [][\A s \in Slots, id \in ReqIds :
          (Heartbeat(s) /\ storedFor(id) = {} /\ id \in {reply'.serviceId, requests'[s].serviceId})
              => (reply' = Answer("heartbeat", 404, id, {}) /\ requests' = requests)]_vars

\* what GET /services?name=<name> answers when it runs without interruption
discover(name) == services(hashes, lookup(members, hashes, name))

upUnder(name) ==
    { hashes[k] : k \in { x \in DOMAIN hashes :
                            /\ "status" \in DOMAIN hashes[x]
                            /\ hashes[x].status = "UP"
                            /\ \/ name = <<>>
                               \/ \E id \in smembers(members, name) : x = serviceKey(name, id) } }

\* C13: every instance in a discover response is a stored record with
\* status UP, stored under the name that was asked for; when the store has
\* not changed between the handler's lookup and its reads, the response is
\* exactly the stored UP records indexed under the name, or without a name
\* all stored UP records.  A heartbeat
\* writes the status it reports and removes nothing, so that a record with
\* another status stays stored, is left out, and is returned again once a
\* heartbeat has reported UP.
C13_DiscoverReturnsUp ==
    [][\A s \in Slots :
          /\ Discovered(s) =>
                LET name == requests[s].name
                IN  /\ \A service \in reply'.services :
                          /\ service.status = "UP"
                          /\ \E k \in DOMAIN hashes :
                                /\ hashes[k] = service
                                /\ name = <<>> \/ k = serviceKey(name, k[Len(k)])
                    /\ requests[s].serviceIds = lookup(members, hashes, name) =>
                          reply'.services = upUnder(name)
          /\ HeartbeatWritten(s) =>
                /\ DOMAIN hashes \subseteq DOMAIN hashes'
                /\ members' = members
                /\ hashes'[requests[s].serviceKey].status = requests[s].status]_vars

\* discover returns an instance that had reported STOPPING and then UP
C13_Witness ==
    /\ reply.op = "discover"
    /\ \E service \in reply.services : "id" \in DOMAIN service /\ service.id \in trace.stopped

\* C14 as stated: no instance in a discover response has a lastHeartbeat
\* older than maxHeartbeatAge at the time of the response.
C14_NeverReturnsExpired ==
    [][\A s \in Slots :
          Discovered(s) =>
              \A service \in reply'.services :
                  ~ (now - service.lastHeartbeat > maxHeartbeatAge)]_vars

\* C14, amended: no instance in a discover response has a lastHeartbeat
\* that was older than maxHeartbeatAge already when the latest finished
\* cleanup run began; an instance that expired after that is still returned.
C14_NeverReturnsSwept ==
    [][\A s \in Slots :
          Discovered(s) =>
              \A service \in reply'.services :
                  ~ (trace.sweptAt - service.lastHeartbeat > maxHeartbeatAge)]_vars

\* a cleanup run has finished, and discover returns an instance that has
\* expired since
C14_Witness ==
    /\ reply.op = "discover"
    /\ trace.sweptAt > 0
    /\ \E service \in reply.services : now - service.lastHeartbeat > maxHeartbeatAge

\* C15: a cleanup run removes every instance that has had no heartbeat for
\* more than maxHeartbeatAge from the records and from the index of its
\* name: when the run deletes a record, the id of the record is no longer
\* in the index of the record's name, and when the run ends no record that
\* was that old when the run began is left.
C15_SweepRemovesExpired ==
    [][
        /\ SweepDeleted =>
              LET serviceInfo == hgetall(hashes, sweep.key)
              IN  /\ sweep.key \notin DOMAIN hashes'
                  /\ ("id" \in DOMAIN serviceInfo /\ "name" \in DOMAIN serviceInfo) =>
                        serviceInfo.id \notin smembers(members', serviceInfo.name)
        /\ (SweepRead /\ sweep'.pc = "idle") =>
              \A k \in DOMAIN hashes' :
                  ~ (sweep'.now - hashes'[k].lastHeartbeat > maxHeartbeatAge)
      ]_vars


\* C16: a deregister call for an id under which no instance is stored is
\* answered 404 by its first step and changes neither the records nor an
\* index; a deregister call that answers 200 has deleted the record and has
\* taken the id out of the index of the record's name; and once a
\* deregister call for an id has answered 200, a heartbeat or a deregister
\* call for that id is answered 404.
C16_DeregisterRemovesInstance ==
    [][
        \A s \in Slots :
            /\ \A id \in ReqIds :
                  (Deregister(s) /\ id \in {reply'.serviceId, requests'[s].serviceId}) =>
                      /\ storedFor(id) = {} =>
                            /\ reply' = Answer("deregister", 404, id, {})
                            /\ requests' = requests
                            /\ members' = members
                      /\ id \in trace.removed =>
                            reply' = Answer("deregister", 404, id, {})
            /\ \A id \in ReqIds :
                  (Heartbeat(s) /\ id \in {reply'.serviceId, requests'[s].serviceId}
                                /\ id \in trace.removed) =>
                      reply' = Answer("heartbeat", 404, id, {})
            /\ Deregistered(s) =>
                  LET serviceInfo == hgetall(hashes, requests[s].serviceKey)
                  IN  /\ requests[s].serviceKey \notin DOMAIN hashes'
                      /\ ("id" \in DOMAIN serviceInfo /\ "name" \in DOMAIN serviceInfo) =>
                            serviceInfo.id \notin smembers(members', serviceInfo.name)
      ]_vars


(***************************************************************************)
(* The registry client of shared/utils/registry.ts.  ServiceRegistryManager *)
(* keeps its state in static fields; its methods run on the single          *)
(* JavaScript thread and give way at their awaits, so every action below is *)
(* a call up to its first await, the code after an await, or a timer        *)
(* callback.  The registry is taken by its answers: 201 with a new id or a  *)
(* failure for POST /register, 200, 404 or a failure for PUT /heartbeat,    *)
(* 200 or a failure for DELETE /services.                                   *)
(***************************************************************************)
MaxErrands == 2
MaxFaults == 2
MaxBeats == 2

\* the client's process is configured with no, one or two retries
ClientConfigs ==
    { [heartbeatInterval |-> 500, retryDelay |-> 250, maxRetries |-> m] : m \in 0..2 }

\* value || fallback on numbers: 0 is falsy
orDefault(value, fallback) == IF value = 0 THEN fallback ELSE value

\* lines 53-58
registryConfig(cfg) ==
    [heartbeatInterval |-> orDefault(cfg.heartbeatInterval, 30000),
     retryDelay |-> orDefault(cfg.retryDelay, 10000),
     maxRetries |-> orDefault(cfg.maxRetries, 5)]

\* register() without the test of lines 45-48
registerUnguarded(c, cfg) ==
    [c EXCEPT !.isRegistering = TRUE,
              !.registryConfig = registryConfig(cfg),
              !.posts = @ + 1]

\* lines 45-63: register() up to its await
register(c, cfg) ==
    IF c.isRegistering THEN c
    ELSE [c EXCEPT !.isRegistering = TRUE,
                   !.registryConfig = registryConfig(cfg),
                   !.posts = @ + 1]

\* lines 216-222
stopHeartbeat(c) == [c EXCEPT !.heartbeatInterval = FALSE]

\* lines 139-145: sendHeartbeat() up to its await
sendHeartbeat(c) ==
    IF c.serviceId = "" THEN c
    ELSE [c EXCEPT !.puts = @ (+) SetToBag({c.serviceId})]

\* lines 115-132
startHeartbeat(c) ==
    LET stopped == stopHeartbeat(c)
    IN  IF stopped.serviceId = "" THEN stopped
        ELSE [sendHeartbeat(stopped) EXCEPT !.heartbeatInterval = TRUE]

\* lines 95-110: process.listenerCount(signal) counts every listener of
\* the signal, whoever added it
setupTerminationHandlers(c) ==
    [c EXCEPT !.listeners =
        [signal \in Signals |->
            IF Len(@[signal]) = 0 THEN <<"deregister">> ELSE @[signal]]]

\* lines 72-85: register() after its await, the registry having answered
registered(c, serviceId) ==
    startHeartbeat(setupTerminationHandlers(
        [c EXCEPT !.serviceId = serviceId,
                  !.retryCount = 0,
                  !.isRegistering = FALSE,
                  !.posts = @ - 1]))

\* handleRegistrationError with one retry more than maxRetries
handleRegistrationErrorOnceMore(c) ==
    IF c.retryCount < orDefault(c.registryConfig.maxRetries, 5) + 1
    THEN [c EXCEPT !.timeouts = @ (+) SetToBag({c.registryConfig.retryDelay * 2^c.retryCount}),
                   !.retryCount = @ + 1]
    ELSE c

\* lines 173-199
handleRegistrationError(c) ==
    IF c.retryCount < orDefault(c.registryConfig.maxRetries, 5)
    THEN [c EXCEPT !.timeouts = @ (+) SetToBag({c.registryConfig.retryDelay * 2^c.retryCount}),
                   !.retryCount = @ + 1]
    ELSE c

\* lines 86-89: register() after its await, the request having failed
registerCaught(c) ==
    handleRegistrationError([c EXCEPT !.isRegistering = FALSE, !.posts = @ - 1])

\* the catch block of sendHeartbeat without the call of lines 160-163
heartbeatCaughtIdle(c, cfg, serviceId, status) ==
    LET settled == [c EXCEPT !.puts = @ (-) SetToBag({serviceId})]
    IN  IF status = 404
        THEN stopHeartbeat([settled EXCEPT !.serviceId = ""])
        ELSE settled

\* lines 152-165: sendHeartbeat() after its await, the request for
\* serviceId having failed with status
heartbeatCaught(c, cfg, serviceId, status) ==
    LET settled == [c EXCEPT !.puts = @ (-) SetToBag({serviceId})]
    IN  IF status = 404
        THEN register(stopHeartbeat([settled EXCEPT !.serviceId = ""]), cfg)
        ELSE settled

\* deregister() that leaves the heartbeat timer alone
deregisterKeepsBeating(c) ==
    IF c.serviceId = "" THEN c
    ELSE [c EXCEPT !.deletes = @ + 1]

\* lines 229-241: deregister() up to its await
deregister(c) ==
    IF c.serviceId = "" THEN c
    ELSE [stopHeartbeat(c) EXCEPT !.deletes = @ + 1]

\* lines 243-254: deregister() after its await; axios throws on every
\* status outside 2xx
deregisterSettled(c, status) ==
    IF status = 200
    THEN [c EXCEPT !.deletes = @ - 1, !.serviceId = "", !.left = TRUE]
    ELSE [c EXCEPT !.deletes = @ - 1]

\* process.exit(): nothing of the process is left to run
exit(c) == [NoClient EXCEPT !.exited = TRUE, !.listeners = c.listeners]

\* the listeners of a signal run in the order in which they were added.
\* "deregister" is the handler of lines 98-101 and 105-108, which calls
\* deregister() and exits when that has returned; "bootstrap" is the
\* handler of apps/api/src/main.ts lines 168-172, which exits at once
RECURSIVE emit(_, _)
emit(c, handlers) ==
    IF handlers = <<>> \/ c.exited THEN c
    ELSE IF Head(handlers) = "bootstrap" THEN exit(c)
    ELSE IF c.serviceId = "" THEN emit([c EXCEPT !.exiting = TRUE], Tail(handlers))
    ELSE emit([deregister(c) EXCEPT !.exiting = TRUE], Tail(handlers))

\* deregister() has returned false without a request (lines 229-232): the
\* handler that awaits it exits in the same turn of the event loop
awaitedAtOnce(c) == IF c.exiting /\ c.deletes = 0 THEN exit(c) ELSE c

\* the process receives a signal; without a listener the signal ends it
kill(c, signal) ==
    IF c.listeners[signal] = <<>> THEN exit(c)
    ELSE awaitedAtOnce(emit(c, c.listeners[signal]))

\* everything outside the registry client
outsideClient == <<breakerVars, registryVars, now, busVars, manager>>

\* the application calls register(), as in the usage of the docs; line 47
\* returns the id at once
ClientRegister ==
    /\ ~ client.exited
    /\ errands > 0
    /\ errands' = errands - 1
    /\ client' = register([client EXCEPT !.left = FALSE], config)
    /\ response' = IF client.isRegistering
                   THEN Answer("register", 0, client.serviceId, {})
                   ELSE NoReply
    /\ UNCHANGED <<config, granted, faults, evicted>>
    /\ UNCHANGED outsideClient

\* POST /register is answered 201 (main.ts lines 62-65)
PostResolved ==
    /\ client.posts > 0
    /\ granted < Len(Uuid)
    /\ granted' = granted + 1
    /\ client' = registered(client, Uuid[granted + 1])
    /\ response' = Answer("register", 201, Uuid[granted + 1], {})
    /\ UNCHANGED <<config, faults, errands, evicted>>
    /\ UNCHANGED outsideClient

\* POST /register fails
PostRejected ==
    /\ client.posts > 0
    /\ faults > 0
    /\ faults' = faults - 1
    /\ client' = registerCaught(client)
    /\ response' = Answer("register", 500, "", {})
    /\ UNCHANGED <<config, granted, errands, evicted>>
    /\ UNCHANGED outsideClient

\* lines 188-193: a retry timer fires
RetryDue ==
    \E delay \in BagToSet(client.timeouts) :
        /\ client' = register([client EXCEPT !.timeouts = @ (-) SetToBag({delay})], config)
        /\ response' = NoReply
        /\ UNCHANGED <<config, granted, faults, errands, evicted>>
        /\ UNCHANGED outsideClient

\* lines 129-131: the interval timer fires
HeartbeatDue ==
    /\ client.heartbeatInterval
    /\ BagCardinality(client.puts) < MaxBeats
    /\ client' = sendHeartbeat(client)
    /\ response' = NoReply
    /\ UNCHANGED <<config, granted, faults, errands, evicted>>
    /\ UNCHANGED outsideClient

\* lines 147-151: PUT /heartbeat/<id> is answered 200
PutResolved ==
    \E serviceId \in BagToSet(client.puts) :
        /\ client' = [client EXCEPT !.puts = @ (-) SetToBag({serviceId})]
        /\ response' = Answer("heartbeat", 200, serviceId, {})
        /\ UNCHANGED <<config, granted, faults, errands, evicted>>
        /\ UNCHANGED outsideClient

\* PUT /heartbeat/<id> is answered 404 (main.ts lines 77-79) or fails
PutRejected ==
    \E serviceId \in BagToSet(client.puts), status \in {404, 500} :
        /\ faults > 0
        /\ faults' = faults - 1
        /\ client' = heartbeatCaught(client, config, serviceId, status)
        /\ response' = Answer("heartbeat", status, serviceId, {})
        /\ evicted' = IF status = 404 THEN evicted \cup {serviceId} ELSE evicted
        /\ UNCHANGED <<config, granted, errands>>
        /\ UNCHANGED outsideClient

\* whether the delete request that settles is the one a signal handler
\* awaits (lines 99, 106): it is when the handler waits and no other is in
\* flight, it may be when others are
Awaited(c) ==
    IF ~ c.exiting THEN {FALSE}
    ELSE IF c.deletes = 1 THEN {TRUE}
    ELSE BOOLEAN

\* the application calls deregister(); line 231
\* returns false at once
ClientDeregister ==
    /\ ~ client.exited
    /\ errands > 0
    /\ errands' = errands - 1
    /\ client' = deregister(client)
    /\ response' = IF client.serviceId = ""
                   THEN Answer("deregister", 0, "", {})
                   ELSE NoReply
    /\ UNCHANGED <<config, granted, faults, evicted>>
    /\ UNCHANGED outsideClient

\* DELETE /services/<id> is answered 200
DeleteResolved ==
    /\ client.deletes > 0
    /\ \E mine \in Awaited(client) :
          client' = IF mine THEN exit(deregisterSettled(client, 200))
                            ELSE deregisterSettled(client, 200)
    /\ response' = Answer("deregister", 200, "", {})
    /\ UNCHANGED <<config, granted, faults, errands, evicted>>
    /\ UNCHANGED outsideClient

\* DELETE /services/<id> is answered 404 (main.ts lines 134-136) or fails
DeleteRejected ==
    \E status \in {404, 500} :
        /\ client.deletes > 0
        /\ faults > 0
        /\ faults' = faults - 1
        /\ \E mine \in Awaited(client) :
              client' = IF mine THEN exit(deregisterSettled(client, status))
                                ELSE deregisterSettled(client, status)
        /\ response' = Answer("deregister", status, "", {})
        /\ UNCHANGED <<config, granted, errands, evicted>>
        /\ UNCHANGED outsideClient

(***************************************************************************)
(* SpecClient: one process with its registry client.  SpecClientFair adds   *)
(* that a registration request in flight is answered.                       *)
(***************************************************************************)
InitClient ==
    /\ BreakerOff
    /\ RegistryOff
    /\ BusOff
    /\ ManagerOff
    /\ now = 1000
    /\ client = NoClient
    /\ config \in ClientConfigs
    /\ response = NoReply
    /\ granted = 0
    /\ faults = MaxFaults
    /\ errands = MaxErrands
    /\ evicted = {}

NextClient ==
    \/ ClientRegister
    \/ PostResolved
    \/ PostRejected
    \/ RetryDue
    \/ HeartbeatDue
    \/ PutResolved
    \/ PutRejected
    \/ ClientDeregister
    \/ DeleteResolved
    \/ DeleteRejected

SpecClient == InitClient /\ [][NextClient]_vars

SpecClientFair == SpecClient /\ WF_vars(PostResolved \/ PostRejected)

(***************************************************************************)
(* SpecShutdown: the process of the client receives a termination signal.  *)
(* The application is one that only calls register(), as in the usage of   *)
(* the docs, or one that has added a SIGINT listener of its own before     *)
(* the registration is answered, as bootstrap() of apps/api/src/main.ts.   *)
(***************************************************************************)
Applications ==
    { NoListeners, [NoListeners EXCEPT !["SIGINT"] = <<"bootstrap">>] }

\* the process is sent one signal
Signal ==
    \E signal \in Signals :
        /\ ~ client.exited
        /\ ~ client.exiting
        /\ client' = kill(client, signal)
        /\ response' = Answer(signal, 0, "", {})
        /\ UNCHANGED <<config, granted, faults, errands, evicted>>
        /\ UNCHANGED outsideClient

InitShutdown ==
    /\ BreakerOff
    /\ RegistryOff
    /\ BusOff
    /\ ManagerOff
    /\ now = 1000
    /\ \E listeners \in Applications :
          client = [NoClient EXCEPT !.listeners = listeners]
    /\ config \in ClientConfigs
    /\ response = NoReply
    /\ granted = 0
    /\ faults = MaxFaults
    /\ errands = MaxErrands
    /\ evicted = {}

NextShutdown ==
    \/ ClientRegister
    \/ PostResolved
    \/ PostRejected
    \/ RetryDue
    \/ HeartbeatDue
    \/ PutResolved
    \/ PutRejected
    \/ ClientDeregister
    \/ DeleteResolved
    \/ DeleteRejected
    \/ Signal

SpecShutdown == InitShutdown /\ [][NextShutdown]_vars


\* C17: at most one POST /register of the client is in flight at any
\* moment, and a register() call made while one is in flight, by the
\* application, by a retry timer or after a heartbeat's 404, issues none.
C17_OneRegistrationInFlight ==
    [][
        /\ client'.posts <= 1
        /\ (client.posts > 0 /\ (ClientRegister \/ RetryDue \/ PutRejected)) =>
              client'.posts = client.posts
      ]_vars

\* register() has been called with a registration in flight and has
\* returned at once
C17_Witness ==
    /\ response.op = "register"
    /\ response.code = 0
    /\ client.posts = 1


C19_ReRegistersAfterNotFound ==
    /\ [][
           (PutRejected /\ response'.code = 404) =>
               /\ ~ client'.heartbeatInterval
               /\ client'.serviceId = ""
               /\ client'.isRegistering
               /\ client'.posts = 1
               /\ ~ client.isRegistering => client'.posts = client.posts + 1
         ]_vars
    /\ (response.op = "heartbeat" /\ response.code = 404 /\ faults = 0)
           ~> (/\ client.serviceId # ""
               /\ client.serviceId \notin evicted
               /\ client.heartbeatInterval)

\* after one register() call of the application and a heartbeat answered
\* 404, the client holds a new id and its heartbeat timer runs
C19_Witness ==
    /\ errands = MaxErrands - 1
    /\ evicted # {}
    /\ response.op = "register"
    /\ response.code = 201
    /\ client.serviceId = response.serviceId
    /\ client.serviceId \notin evicted
    /\ client.heartbeatInterval


\* C20 as stated: when a deregister() call made with an id held returns,
\* the client holds no id and its heartbeat timer is not running.
C20_DeregisterClears ==
    [][
        (DeleteResolved \/ DeleteRejected) =>
            /\ client'.serviceId = ""
            /\ ~ client'.heartbeatInterval
      ]_vars

\* C20: a deregister() call made with an id held stops the heartbeat timer
\* and sends the delete request, keeping the id meanwhile; when the
\* request is answered 200 the call clears the id, and when the request
\* fails it leaves the id as it is; neither starts the timer, which only
\* a registration that succeeds does.
C20_DeregisterClearsOnSuccess ==
    [][
        /\ (ClientDeregister /\ client.serviceId # "") =>
              /\ ~ client'.heartbeatInterval
              /\ client'.deletes = client.deletes + 1
              /\ client'.serviceId = client.serviceId
        /\ DeleteResolved =>
              /\ client'.serviceId = ""
              /\ client'.heartbeatInterval = client.heartbeatInterval
        /\ DeleteRejected =>
              /\ client'.serviceId = client.serviceId
              /\ client'.heartbeatInterval = client.heartbeatInterval
        /\ (client'.heartbeatInterval /\ ~ client.heartbeatInterval) => PostResolved
      ]_vars

\* deregister() has returned true: no id is held and no heartbeat timer
\* is running
C20_Witness ==
    /\ response.op = "deregister"
    /\ response.code = 200
    /\ client.serviceId = ""
    /\ ~ client.heartbeatInterval
    /\ client.listeners # NoListeners


\* the handlers of a signal that call deregister()
deregistering(c, signal) ==
    { i \in DOMAIN c.listeners[signal] : c.listeners[signal][i] = "deregister" }

\* C21: once a registration has succeeded, each of SIGINT and SIGTERM has
\* exactly one handler that calls deregister(), however many registrations
\* succeed; and a signal that arrives while the client holds an id sends
\* exactly one delete request.
C21_OneHandlerPerSignal ==
    [][
        /\ granted' > 0 =>
              \A signal \in Signals : Cardinality(deregistering(client', signal)) = 1
        /\ (Signal /\ granted > 0 /\ client.serviceId # "") =>
              client'.deletes = client.deletes + 1
      ]_vars


\* C27: a heartbeat whose record has been deleted since its lookup, by a
\* deregister call or by a cleanup run, answers 404: its last step neither
\* answers 200 nor writes a record when the key it found is gone.
C27_HeartbeatSeesDeletion ==
    [][
        \A s \in Slots :
            (HeartbeatWritten(s) /\ requests[s].serviceKey \notin DOMAIN hashes) =>
                /\ reply'.code = 404
                /\ hashes' = hashes
      ]_vars


\* C28: at most one heartbeat request of the client is in flight at any
\* moment, and the interval timer starts none while one is in flight.
C28_HeartbeatsSerialized ==
    [][
        /\ BagCardinality(client'.puts) <= 1
        /\ (HeartbeatDue /\ client.puts # EmptyBag) => client'.puts = client.puts
      ]_vars


(***************************************************************************)
(* C29: with distributed tracking on, every step that changes the local    *)
(* state of the breaker emits a circuit-state-change with the new state    *)
(* and issues a write of the new state to the store, and the commands      *)
(* issued and the value stored end with the local state once any change    *)
(* has happened.                                                           *)
(***************************************************************************)
C29_EveryChangeMirrored ==
    [][
        state' # state =>
            /\ emitted' # <<>>
            /\ emitted'[Len(emitted')] = state'
            /\ Len(pending') = Len(pending) + 1
            /\ pending'[Len(pending')].state = state'
      ]_vars



(***************************************************************************)
(* C30: whatever the interleaving of the callers and of reset(), a step    *)
(* that changes the state of the breaker is one of: reset() to CLOSED; a   *)
(* reported failure that brings failures to failureThreshold, CLOSED to    *)
(* OPEN; a call begun resetTimeout or more after the last failure, OPEN to *)
(* HALF_OPEN; the success that completes successThreshold successes,       *)
(* HALF_OPEN to CLOSED; a reported failure, HALF_OPEN to OPEN.             *)
(***************************************************************************)
C30_TransitionRules ==
    [][
        state' # state =>
            \/ Reset /\ state' = "CLOSED"
            \/ /\ state = "CLOSED" /\ state' = "OPEN"
               /\ \E c \in Callers, o \in Failed : Settles(c, o) /\ LastAttempt(c)
               /\ failures' = failures + 1
               /\ failures' = options.failureThreshold
            \/ /\ state = "OPEN" /\ state' = "HALF_OPEN"
               /\ \E c \in Callers : Execute(c)
               /\ now - lastFailureTime >= options.resetTimeout
            \/ /\ state = "HALF_OPEN" /\ state' = "CLOSED"
               /\ \E c \in Callers : Settles(c, "ok")
               /\ history'.halfOpenSuccesses = options.successThreshold
            \/ /\ state = "HALF_OPEN" /\ state' = "OPEN"
               /\ \E c \in Callers, o \in Failed : Settles(c, o) /\ LastAttempt(c)
               /\ failures' = failures + 1
      ]_vars

\* the breaker was closed from HALF_OPEN while the other caller's call, begun
\* before that, is still awaited, and both callers have called
C30_Witness ==
    /\ state = "CLOSED"
    /\ history.halfOpenSuccesses = options.successThreshold
    /\ \E c \in Callers : calls[c].pc = "awaiting" /\ calls[c].seenState # "CLOSED"
    /\ \A c \in Callers : calls[c].invocations > 0


(***************************************************************************)
(* The message bus client: RabbitMQService of shared/events/exchanges.ts   *)
(* with setupQueues of shared/events/setupQueues.ts, and the RabbitMQ      *)
(* server it talks to.  Names of queues, routing keys and binding patterns *)
(* are sequences of their words: 'notification.email' is                   *)
(* <<"notification", "email">>.                                            *)
(***************************************************************************)
\* what the application and the server do to the client: calls of
\* initialize() and subscribeToEvents(), connections refused, connections lost
MaxBusInputs == 4

maxReconnectAttempts == 10

\* Object.values(EXCHANGES), in the order of the loop of setupExchanges
EXCHANGES ==
    << "user.events", "payment.events", "notification.events",
       "notification.broadcast", "notification.direct", "business.events",
       "wallet.events", "compliance.events", "dead.letter" >>

ExchangeConfig ==
    [e \in { EXCHANGES[i] : i \in 1..Len(EXCHANGES) } |->
        IF e = "notification.broadcast" THEN "fanout"
        ELSE IF e = "notification.direct" THEN "direct"
        ELSE "topic"]

\* one queue of each of the three kinds of shared/events/queues/notification.queue.ts
notificationQueues ==
    << <<"notification", "email">>,
       <<"notification", "broadcast", "system">>,
       <<"notification", "direct", "user">> >>

includes(queueName, word) == \E i \in 1..Len(queueName) : queueName[i] = word

\* the arguments of the createQueue call of lines 39-47 for one configured queue
configured(queueName) ==
    [queueName |-> queueName,
     exchange |-> IF includes(queueName, "broadcast") THEN "notification.broadcast"
                  ELSE IF includes(queueName, "direct") THEN "notification.direct"
                  ELSE "notification.events",
     routingPattern |-> IF includes(queueName, "broadcast") THEN <<>> ELSE queueName,
     deadLetterExchange |-> "dead.letter",
     messageTtl |-> 24 * 60 * 60 * 1000]

\* what setupQueues declares, in its order: the configured queues, the
\* broadcast queue and the dead letter queue
Declarations ==
    [i \in 1..Len(notificationQueues) |-> configured(notificationQueues[i])]
    \o << [configured(<<"notification", "broadcast", "all">>) EXCEPT !.routingPattern = <<>>],
          [queueName |-> <<"notification-dead-letter-queue">>, exchange |-> "dead.letter",
           routingPattern |-> <<"#">>, deadLetterExchange |-> "", messageTtl |-> 0] >>

\* the subscriptions the application makes
Handlers == {"h1", "h2"}

\* two handlers on one queue, each with a routing pattern of its own
Subscriptions ==
    { [queueName |-> <<"notification-email-consumer">>, exchange |-> "notification.events",
       routingPattern |-> <<"notification", "email">>, handler |-> "h1"],
      [queueName |-> <<"notification-email-consumer">>, exchange |-> "notification.events",
       routingPattern |-> <<"notification", "sms">>, handler |-> "h2"] }

NoSubscription == [queueName |-> <<>>, exchange |-> "", routingPattern |-> <<>>, handler |-> ""]

\* an async call between two awaits: what it is, the request it awaits, who
\* awaits it, the channel it uses (0: none yet), its arguments and its
\* position in the list it works through
Task(kind, pc, origin, channel, sub, i) ==
    [kind |-> kind, pc |-> pc, origin |-> origin, channel |-> channel, sub |-> sub, i |-> i]

\* the message bus as one value, so that the methods below are functions
\* from the state before to the state after
Bus == [mq |-> mq, broker |-> broker, tasks |-> tasks, timers |-> timers, ledger |-> ledger]

BusBecomes(b) ==
    /\ mq' = b.mq
    /\ broker' = b.broker
    /\ tasks' = b.tasks
    /\ timers' = b.timers
    /\ ledger' = b.ledger

One(x) == SetToBag({x})

\* line 219 as a fraction <<numerator, denominator>> of milliseconds:
\* Math.min(5000 * Math.pow(1.5, attempts - 1), 60000)
delay(attempts) ==
    LET k == attempts - 1
    IN IF 5000 * 3^k > 60000 * 2^k THEN <<60000, 1>> ELSE <<5000 * 3^k, 2^k>>

\* line 182
reconnectEntered(b) == [b EXCEPT !.mq.reconnectAttempts = @ + 1]

\* line 184
givesUp(b) == b.mq.reconnectAttempts > maxReconnectAttempts

\* lines 191-194
clearReconnectTimeout(b) ==
    [b EXCEPT !.timers = { t \in @ : t.id # b.mq.reconnectTimeout },
              !.mq.reconnectTimeout = 0]

\* lines 212-231: the fields are reset and the timer is set; the timer
\* remembers how many waits have been scheduled since a connection was last
\* established, itself included
reconnectScheduled(b) ==
    LET id == b.ledger.timers + 1
    IN [b EXCEPT !.mq.connection = 0, !.mq.channel = 0, !.mq.initialized = FALSE,
                 !.mq.connecting = FALSE, !.mq.watching = FALSE,
                 !.mq.reconnectTimeout = id,
                 !.timers = @ \cup { [id |-> id, delay |-> delay(b.mq.reconnectAttempts),
                                      wait |-> b.ledger.waits + 1] },
                 !.ledger.timers = id,
                 !.ledger.waits = @ + 1]

\* reconnect() when the channel and the connection are null or closed, so
\* that the close() calls of lines 197-207 settle without the server
reconnect(b) ==
    LET entered == reconnectEntered(b)
    IN IF givesUp(entered) THEN entered
       ELSE reconnectScheduled(clearReconnectTimeout(entered))

\* the 'error' and the 'close' listener of lines 116-124 called one after the
\* other: both calls of reconnect() reach their first await before either
\* goes on
reconnectTwice(b) ==
    LET first == reconnectEntered(b)
        cleared == IF givesUp(first) THEN first ELSE clearReconnectTimeout(first)
        second == reconnectEntered(cleared)
        both == IF givesUp(second) THEN second ELSE clearReconnectTimeout(second)
        one == IF givesUp(first) THEN both ELSE reconnectScheduled(both)
    IN IF givesUp(second) THEN one ELSE reconnectScheduled(one)

\* the reconnectHandler of lines 393-401 called for every listener of
\* 'reconnected': each calls subscribeToEvents, which goes as far as the
\* assertQueue of createQueue
replayed(b) ==
    LET listeners == b.mq.reconnected
        replay(sub) == Task("subscribeToEvents", "createQueue", "replay", b.mq.channel, sub, 0)
    IN [t \in { replay(sub) : sub \in DOMAIN listeners } |-> listeners[t.sub]]

\* lines 225-227: the timer callback after its initialize() resolved
reconnected(b) ==
    [b EXCEPT !.mq.reconnectAttempts = 0,
              !.tasks = @ (+) replayed(b),
              !.ledger.reconnected = @ + 1]

RECURSIVE times(_, _)
times(b, n) == IF n = 0 THEN b ELSE times(reconnected(b), n - 1)

\* what the caller of initialize() does once it has resolved
resolved(b, origin) == IF origin = "timer" THEN reconnected(b) ELSE b

\* initialize() up to its first await, lines 72-104
initialize(b, origin) ==
    IF b.mq.initialized /\ b.mq.connection # 0 /\ b.mq.channel # 0
    THEN resolved(b, origin)
    ELSE IF b.mq.connecting
    THEN [b EXCEPT !.mq.connected = @ (+) One(origin)]
    ELSE [b EXCEPT !.mq.connecting = TRUE,
                   !.mq.reconnectAttempts = 0,
                   !.tasks = @ (+) One(Task("initialize", "connect", origin, 0,
                                            NoSubscription, 0))]

\* line 104 resolved: the server has accepted a connection
connectResolved(b, t) ==
    LET id == b.broker.accepted + 1
    IN [b EXCEPT !.broker.accepted = id,
                 !.broker.connections = @ \cup {id},
                 !.mq.connection = id,
                 !.tasks = (@ (-) One(t)) (+) One([t EXCEPT !.pc = "createChannel"])]

\* line 104 rejected, lines 132-137; connection and channel are null
connectRejected(b, t) ==
    reconnect([b EXCEPT !.mq.connecting = FALSE,
                        !.tasks = @ (-) One(t),
                        !.ledger.refusals = @ + 1])

\* line 107 resolved, and setupExchanges as far as its first assertExchange
channelCreated(b, t) ==
    [b EXCEPT !.mq.channel = b.mq.connection,
              !.tasks = (@ (-) One(t))
                        (+) One([t EXCEPT !.pc = "assertExchange",
                                          !.channel = b.mq.connection])]

\* setupQueues() of lines 169-176: setupQueues of setupQueues.ts is called and
\* not awaited; it goes as far as the assertQueue of its first createQueue
setupQueues(b) ==
    [b EXCEPT !.tasks = @ (+) One(Task("setupQueues", "createQueue", "initialize",
                                       b.mq.channel, NoSubscription, 1))]

\* lines 113-131 and what the callers waiting on 'connected' and the caller
\* of initialize() do when it has resolved
established(b, t) ==
    LET waiting == b.mq.connected
        timersWaiting == IF "timer" \in DOMAIN waiting THEN waiting["timer"] ELSE 0
        announced == [setupQueues(b) EXCEPT !.mq.watching = TRUE,
                                            !.mq.initialized = TRUE,
                                            !.mq.connecting = FALSE,
                                            !.mq.connected = EmptyBag,
                                            !.ledger.connected = @ + 1,
                                            !.ledger.waits = 0]
    IN times(announced, timersWaiting + (IF t.origin = "timer" THEN 1 ELSE 0))

\* the assertExchange calls of the loop of lines 150-158 have resolved one
\* after the other, and initialize() goes on
exchangesAsserted(b, t) ==
    established([b EXCEPT !.broker.exchanges =
                              @ \cup { EXCHANGES[i] : i \in 1..Len(EXCHANGES) },
                          !.tasks = @ (-) One(t)],
                t)

\* the arguments of the createQueue call a task is in
creating(t) ==
    IF t.kind = "setupQueues" THEN Declarations[t.i]
    ELSE [queueName |-> t.sub.queueName, exchange |-> t.sub.exchange,
          routingPattern |-> t.sub.routingPattern,
          deadLetterExchange |-> "dead.letter", messageTtl |-> 0]

\* createQueue (lines 267-272) or setupDeadLetterQueue (lines 290-291)
\* resolved, the server having answered assertQueue and then bindQueue:
\* setupQueues goes on to its next queue, subscribeToEvents tracks the
\* handler and calls consume
queueCreated(b, t) ==
    LET q == creating(t)
        bound == [b EXCEPT !.broker.queues =
                               @ \cup { [name |-> q.queueName,
                                         deadLetterExchange |-> q.deadLetterExchange,
                                         messageTtl |-> q.messageTtl] },
                           !.broker.bindings =
                               @ \cup { [queue |-> q.queueName, exchange |-> q.exchange,
                                         pattern |-> q.routingPattern] },
                           !.tasks = @ (-) One(t)]
    IN IF t.kind = "setupQueues"
       THEN IF t.i < Len(Declarations)
            THEN [bound EXCEPT !.tasks = @ (+) One([t EXCEPT !.i = @ + 1])]
            ELSE bound
       ELSE [bound EXCEPT !.mq.eventListeners = @ \cup { <<t.sub.queueName, t.sub.handler>> },
                          !.tasks = @ (+) One([t EXCEPT !.pc = "consume"])]

\* the consume of lines 387-391 resolved, lines 393-407
consuming(b, t) ==
    [b EXCEPT !.broker.consumers = @ (+) One([queue |-> t.sub.queueName,
                                              channel |-> t.channel,
                                              handler |-> t.sub.handler]),
              !.mq.reconnected = @ (+) One(t.sub),
              !.tasks = @ (-) One(t)]

\* subscribeToEvents on a client that is connected, as far as the
\* assertQueue of createQueue
subscribeToEvents(b, sub) ==
    [b EXCEPT !.tasks = @ (+) One(Task("subscribeToEvents", "createQueue", "caller",
                                       b.mq.channel, sub, 0)),
              !.ledger.subscriptions = @ + 1]

\* the bag without the elements that satisfy Lost
Without(bag, Lost(_)) ==
    [x \in { y \in DOMAIN bag : ~ Lost(y) } |-> bag[x]]

\* the server drops the connection: the requests in flight on its channel
\* are rejected, its consumers are gone and the messages it had delivered
\* and not seen settled are back in their queues; a handler that is running
\* goes on
dropped(b) ==
    LET c == b.mq.connection
        onChannel(x) == x.channel = c
        rejected(t) == t.channel = c /\ t.kind # "messageHandler"
        unsettled == { d \in b.broker.unacked : d.channel = c }
    IN [b EXCEPT !.broker.connections = @ \ {c},
                 !.broker.consumers = Without(@, onChannel),
                 !.broker.unacked = @ \ unsettled,
                 !.broker.ready = @ \cup { d.message : d \in unsettled },
                 !.tasks = Without(@, rejected),
                 !.ledger.losses = @ + 1]

(***************************************************************************)
(* Actions of the message bus client.                                      *)
(***************************************************************************)
outsideBus == <<breakerVars, registryVars, clientVars, now, manager>>

spent ==
    ledger.calls + ledger.refusals + ledger.losses + ledger.subscriptions + ledger.published

\* the application calls initialize(), or getChannel() while there is no channel
Initialize ==
    /\ spent < MaxBusInputs
    /\ ~ mq.initialized
    /\ BusBecomes(initialize([Bus EXCEPT !.ledger.calls = @ + 1], "caller"))
    /\ UNCHANGED outsideBus

ConnectResolved ==
    \E t \in DOMAIN tasks :
        /\ t.kind = "initialize" /\ t.pc = "connect"
        /\ BusBecomes(connectResolved(Bus, t))
        /\ UNCHANGED outsideBus

ConnectRejected ==
    \E t \in DOMAIN tasks :
        /\ t.kind = "initialize" /\ t.pc = "connect"
        /\ spent < MaxBusInputs
        /\ BusBecomes(connectRejected(Bus, t))
        /\ UNCHANGED outsideBus

ChannelCreated ==
    \E t \in DOMAIN tasks :
        /\ t.kind = "initialize" /\ t.pc = "createChannel"
        /\ BusBecomes(channelCreated(Bus, t))
        /\ UNCHANGED outsideBus

ExchangesAsserted ==
    \E t \in DOMAIN tasks :
        /\ t.kind = "initialize" /\ t.pc = "assertExchange"
        /\ BusBecomes(exchangesAsserted(Bus, t))
        /\ UNCHANGED outsideBus

QueueCreated ==
    \E t \in DOMAIN tasks :
        /\ t.pc = "createQueue"
        /\ BusBecomes(queueCreated(Bus, t))
        /\ UNCHANGED outsideBus

Consuming ==
    \E t \in DOMAIN tasks :
        /\ t.pc = "consume"
        /\ BusBecomes(consuming(Bus, t))
        /\ UNCHANGED outsideBus

SubscribeToEvents ==
    \E sub \in Subscriptions :
        /\ spent < MaxBusInputs
        /\ mq.initialized
        /\ BusBecomes(subscribeToEvents(Bus, sub))
        /\ UNCHANGED outsideBus

\* the connection is lost once its listeners are attached: it emits 'close',
\* or 'error' and then 'close'
ConnectionLost ==
    \E events \in { <<"close">>, <<"error", "close">> } :
        /\ spent < MaxBusInputs
        /\ mq.watching
        /\ mq.connection \in broker.connections
        /\ BusBecomes(IF Len(events) = 2 THEN reconnectTwice(dropped(Bus))
                      ELSE reconnect(dropped(Bus)))
        /\ UNCHANGED outsideBus

\* a timer of line 222 fires
ReconnectDue ==
    \E t \in timers :
        /\ BusBecomes(initialize([Bus EXCEPT !.timers = @ \ {t}], "timer"))
        /\ UNCHANGED outsideBus

\* the timer of line 80 fires for a caller waiting on 'connected': the
\* listener is removed and the caller gets the rejection
ConnectionTimeout ==
    \E origin \in DOMAIN mq.connected :
        /\ mq' = [mq EXCEPT !.connected = @ (-) One(origin)]
        /\ UNCHANGED <<broker, tasks, timers, ledger>>
        /\ UNCHANGED outsideBus

InitBus ==
    /\ BreakerOff
    /\ RegistryOff
    /\ ClientOff
    /\ ManagerOff
    /\ now = 0
    /\ mq = NoService
    /\ broker = NoBroker
    /\ tasks = EmptyBag
    /\ timers = {}
    /\ ledger = NoLedger

NextBus ==
    \/ Initialize
    \/ ConnectResolved
    \/ ConnectRejected
    \/ ChannelCreated
    \/ ExchangesAsserted
    \/ QueueCreated
    \/ Consuming
    \/ SubscribeToEvents
    \/ ConnectionLost
    \/ ReconnectDue
    \/ ConnectionTimeout

SpecBus == InitBus /\ [][NextBus]_vars

\* the server answers every request and a timer that is set fires
SpecBusFair ==
    /\ SpecBus
    /\ WF_vars(ConnectResolved)
    /\ WF_vars(ChannelCreated)
    /\ WF_vars(ExchangesAsserted)
    /\ WF_vars(QueueCreated)
    /\ WF_vars(Consuming)
    /\ WF_vars(ReconnectDue)


(***************************************************************************)
(* Messages: publishEvent, the server's routing, and the messageHandler    *)
(* of subscribeToEvents.                                                   *)
(***************************************************************************)
\* JavaScript values: the type and how the value is written
String(v) == [t |-> "string", v |-> v]
DateOf(iso) == [t |-> "date", v |-> iso]
Undefined == [t |-> "undefined", v |-> ""]
Null == [t |-> "null", v |-> ""]

\* {}
NoObject == [k \in {} |-> Undefined]

\* the messages the application publishes: the domain fields, and
\* message.metadata (NoObject when there is none)
Messages ==
    { [fields |-> [type |-> String("email")], metadata |-> NoObject],
      [fields |-> [type |-> String("email"), sentAt |-> DateOf("2024-01-01T00:00:00.000Z"),
                   link |-> Undefined],
       metadata |-> NoObject],
      [fields |-> [type |-> String("sms")], metadata |-> [eventId |-> String("mine")]] }

RoutingKeys == { <<"notification", "email">>, <<"notification", "sms">> }

\* what generateEventId() returns for the n-th message
generateEventId(n) == <<"e1", "e2", "e3", "e4", "e5", "e6">>[n]

\* an envelope in which the generated metadata overrides the caller's
enhancedMessageGenerated(message, timestamp, eventId) ==
    [fields |-> message.fields,
     metadata |-> Spread(message.metadata,
                         [timestamp |-> String(timestamp), eventId |-> String(eventId)])]

\* lines 312-319
enhancedMessage(message, timestamp, eventId) ==
    [fields |-> message.fields,
     metadata |-> Spread([timestamp |-> String(timestamp), eventId |-> String(eventId)],
                         message.metadata)]

\* JSON.stringify of a value: a Date is written as its ISO string
toJSON(value) == IF value.t = "date" THEN String(value.v) ELSE value

\* JSON.stringify of an object: the properties that are undefined are left out
stringify(object) ==
    [k \in { j \in DOMAIN object : object[j].t # "undefined" } |-> toJSON(object[k])]

\* Buffer.from(JSON.stringify(enhancedMessage)), line 333, as the JSON
\* document the bytes spell
content(envelope) ==
    [json |-> TRUE, fields |-> stringify(envelope.fields),
     metadata |-> stringify(envelope.metadata)]

\* bytes that are not a JSON document
NotJson == [json |-> FALSE, fields |-> NoObject, metadata |-> NoObject]

\* JSON.parse(msg.content.toString()), line 376, of bytes that parse
parse(bytes) == [fields |-> bytes.fields, metadata |-> bytes.metadata]

\* a binding pattern of a topic exchange matches a routing key
RECURSIVE topicMatches(_, _)
topicMatches(routingKey, pattern) ==
    IF pattern = <<>> THEN routingKey = <<>>
    ELSE IF Head(pattern) = "#"
    THEN \/ topicMatches(routingKey, Tail(pattern))
         \/ routingKey # <<>> /\ topicMatches(Tail(routingKey), pattern)
    ELSE /\ routingKey # <<>>
         /\ Head(pattern) = "*" \/ Head(pattern) = Head(routingKey)
         /\ topicMatches(Tail(routingKey), Tail(pattern))

\* the queues an exchange of the server routes a message to
routed(b, exchange, routingKey) ==
    { binding.queue :
        binding \in { x \in b.broker.bindings :
                        /\ x.exchange = exchange
                        /\ \/ ExchangeConfig[exchange] = "fanout"
                           \/ ExchangeConfig[exchange] = "direct" /\ x.pattern = routingKey
                           \/ ExchangeConfig[exchange] = "topic"
                              /\ topicMatches(routingKey, x.pattern) } }

\* ch.publish: a copy of the message in every queue it is routed to; sent is
\* the message as the application passed it, which the server does not have
published(b, exchange, routingKey, bytes, sent) ==
    LET n == b.broker.arrived + 1
    IN [b EXCEPT !.broker.arrived = n,
                 !.broker.ready =
                     @ \cup { [queue |-> q, exchange |-> exchange, routingKey |-> routingKey,
                               content |-> bytes, sent |-> sent, arrival |-> n] :
                               q \in routed(b, exchange, routingKey) }]

\* publishEvent on a client that has a channel, lines 302-340
publishEvent(b, exchange, routingKey, message) ==
    LET n == b.ledger.published + 1
        envelope == enhancedMessage(message, "now", generateEventId(n))
    IN published([b EXCEPT !.ledger.published = n],
                 exchange, routingKey, content(envelope), message)

\* ch.ack(msg), line 378
ack(b, d) ==
    [b EXCEPT !.broker.unacked = @ \ {d},
              !.ledger.settled = Append(@, [tag |-> d.tag, how |-> "ack"])]

\* ch.nack(msg, false, false), line 382: the server drops the message from
\* its queue and passes it to the dead letter exchange of the queue, if it
\* has one, under its routing key
nack(b, d) ==
    LET m == d.message
        exchanges == { q.deadLetterExchange :
                         q \in { x \in b.broker.queues :
                                   x.name = m.queue /\ x.deadLetterExchange # "" } }
        queues == UNION { routed(b, x, m.routingKey) : x \in exchanges }
    IN [b EXCEPT !.broker.unacked = @ \ {d},
                 !.broker.deadLettered = @ + Cardinality(exchanges),
                 !.broker.ready = @ \cup { [m EXCEPT !.queue = q] : q \in queues },
                 !.ledger.settled = Append(@, [tag |-> d.tag, how |-> "nack"])]

\* the server delivers a message to a consumer and the messageHandler of
\* lines 372-384 runs as far as its await: bytes that do not parse are
\* nacked, the others are passed to the handler
delivered(b, m, consumer) ==
    LET tag == b.broker.delivered + 1
        d == [tag |-> tag, channel |-> consumer.channel, handler |-> consumer.handler,
              message |-> m]
        sent == [b EXCEPT !.broker.delivered = tag,
                          !.broker.ready = @ \ {m},
                          !.broker.unacked = @ \cup {d},
                          !.ledger.settled = <<>>]
    IN IF ~ m.content.json THEN nack(sent, d)
       ELSE [sent EXCEPT !.tasks =
                @ (+) One(Task("messageHandler", "handler", "consumer", consumer.channel,
                               [NoSubscription EXCEPT !.queueName = consumer.queue,
                                                      !.handler = consumer.handler],
                               tag))]

\* the delivery a messageHandler is to settle, if its channel is still open
Unsettled(b, t) == { d \in b.broker.unacked : d.tag = t.i }

\* the handler resolved, line 378; on a closed channel ack throws, and so
\* does the nack of the catch block
handlerResolved(b, t) ==
    LET finished == [b EXCEPT !.tasks = @ (-) One(t), !.ledger.settled = <<>>]
    IN IF Unsettled(b, t) = {} THEN finished
       ELSE ack(finished, CHOOSE d \in Unsettled(b, t) : TRUE)

\* the handler threw or rejected, lines 379-383
handlerRejected(b, t) ==
    LET finished == [b EXCEPT !.tasks = @ (-) One(t), !.ledger.settled = <<>>]
    IN IF Unsettled(b, t) = {} THEN finished
       ELSE nack(finished, CHOOSE d \in Unsettled(b, t) : TRUE)

PublishEvent ==
    \E message \in Messages, routingKey \in RoutingKeys :
        /\ spent < MaxBusInputs
        /\ mq.channel # 0
        /\ BusBecomes(publishEvent(Bus, "notification.events", routingKey, message))
        /\ UNCHANGED outsideBus

\* another program publishes bytes that are not JSON
ForeignPublish ==
    \E routingKey \in RoutingKeys :
        /\ spent < MaxBusInputs
        /\ broker.connections # {}
        /\ BusBecomes(published([Bus EXCEPT !.ledger.published = @ + 1],
                                "notification.events", routingKey, NotJson, NotJson))
        /\ UNCHANGED outsideBus

\* the server delivers the oldest message of a queue to one of its consumers
Deliver ==
    \E m \in broker.ready, consumer \in DOMAIN broker.consumers :
        /\ consumer.queue = m.queue
        /\ consumer.channel \in broker.connections
        /\ \A other \in broker.ready : other.queue = m.queue => m.arrival <= other.arrival
        /\ BusBecomes(delivered(Bus, m, consumer))
        /\ UNCHANGED outsideBus

HandlerResolved ==
    \E t \in DOMAIN tasks :
        /\ t.kind = "messageHandler"
        /\ BusBecomes(handlerResolved(Bus, t))
        /\ UNCHANGED outsideBus

HandlerRejected ==
    \E t \in DOMAIN tasks :
        /\ t.kind = "messageHandler"
        /\ BusBecomes(handlerRejected(Bus, t))
        /\ UNCHANGED outsideBus

\* a client whose initialize() has resolved and whose setupQueues has finished
InitMessages ==
    /\ BreakerOff
    /\ RegistryOff
    /\ ClientOff
    /\ ManagerOff
    /\ now = 0
    /\ mq = [NoService EXCEPT !.connection = 1, !.channel = 1, !.initialized = TRUE,
                              !.watching = TRUE]
    /\ broker = [NoBroker EXCEPT
                    !.connections = {1},
                    !.accepted = 1,
                    !.exchanges = { EXCHANGES[i] : i \in 1..Len(EXCHANGES) },
                    !.queues = { [name |-> Declarations[i].queueName,
                                  deadLetterExchange |-> Declarations[i].deadLetterExchange,
                                  messageTtl |-> Declarations[i].messageTtl] :
                                  i \in 1..Len(Declarations) },
                    !.bindings = { [queue |-> Declarations[i].queueName,
                                    exchange |-> Declarations[i].exchange,
                                    pattern |-> Declarations[i].routingPattern] :
                                    i \in 1..Len(Declarations) }]
    /\ tasks = EmptyBag
    /\ timers = {}
    /\ ledger = [NoLedger EXCEPT !.calls = 1, !.connected = 1]

\* the messages of a connected client, up to the loss of its connection and
\* the handlers that are still running then; the reconnection that follows
\* is in NextBus
NextMessages ==
    \/ QueueCreated
    \/ Consuming
    \/ SubscribeToEvents
    \/ ConnectionLost
    \/ PublishEvent
    \/ ForeignPublish
    \/ Deliver
    \/ HandlerResolved
    \/ HandlerRejected

SpecMessages == InitMessages /\ [][NextMessages]_vars

(***************************************************************************)
(* C22: the n-th reconnect timer set since a connection was last           *)
(* established (or since the start) waits min(5000 * 1.5^(n-1), 60000) ms, *)
(* and no timer is set after the tenth.                                    *)
(***************************************************************************)
C22_ReconnectBackoff ==
    [][
        \A t \in timers' \ timers :
            /\ t.wait <= maxReconnectAttempts
            /\ t.delay = delay(t.wait)
      ]_vars



(***************************************************************************)
(* C23: a step that emits 'connected', or 'reconnected' for the            *)
(* subscriptions to be replayed, finds every exchange declared, every      *)
(* queue of setupQueues declared and bound, and the setupQueues run of     *)
(* this connection finished.                                               *)
(***************************************************************************)
C23_ConnectedAfterQueues ==
    [][
        (ledger'.connected > ledger.connected \/ ledger'.reconnected > ledger.reconnected) =>
            /\ \A i \in 1..Len(EXCHANGES) : EXCHANGES[i] \in broker'.exchanges
            /\ \A i \in 1..Len(Declarations) :
                   /\ \E q \in broker'.queues : q.name = Declarations[i].queueName
                   /\ [queue |-> Declarations[i].queueName,
                       exchange |-> Declarations[i].exchange,
                       pattern |-> Declarations[i].routingPattern] \in broker'.bindings
            /\ \A t \in DOMAIN tasks' :
                   ~ (t.kind = "setupQueues" /\ t.channel = mq'.channel)
      ]_vars



\* the handler of sub is consuming its queue on the channel the client holds
Consumes(sub) ==
    /\ mq.channel \in broker.connections
    /\ BagIn([queue |-> sub.queueName, channel |-> mq.channel, handler |-> sub.handler],
             broker.consumers)

(***************************************************************************)
(* C25: a subscription whose consume has been answered is tracked, with    *)
(* its queue declared and bound; every 'reconnected' starts, for every     *)
(* tracked subscription, a subscribeToEvents with the same arguments on    *)
(* the new channel; and a tracked subscription gets its handler consuming  *)
(* on the channel the client holds, whatever connections are lost or       *)
(* refused in between.                                                     *)
(***************************************************************************)
C25_Resubscribed ==
    /\ [][
           Consuming =>
               \E t \in DOMAIN tasks :
                   /\ t.pc = "consume"
                   /\ tasks' = tasks (-) One(t)
                   /\ t.sub \in DOMAIN mq'.reconnected
                   /\ <<t.sub.queueName, t.sub.handler>> \in mq'.eventListeners
                   /\ BagIn([queue |-> t.sub.queueName, channel |-> t.channel,
                             handler |-> t.sub.handler], broker'.consumers)
                   /\ \E q \in broker'.queues : q.name = t.sub.queueName
                   /\ [queue |-> t.sub.queueName, exchange |-> t.sub.exchange,
                       pattern |-> t.sub.routingPattern] \in broker'.bindings
         ]_vars
    /\ [][
           ledger'.reconnected > ledger.reconnected =>
               /\ mq'.channel \in broker'.connections
               /\ \A sub \in DOMAIN mq.reconnected :
                      \E t \in DOMAIN tasks' :
                          /\ t.kind = "subscribeToEvents" /\ t.origin = "replay"
                          /\ t.sub = sub /\ t.channel = mq'.channel
         ]_vars
    /\ \A sub \in Subscriptions :
           (sub \in DOMAIN mq.reconnected) ~> Consumes(sub)

(***************************************************************************)
(* C24: every delivered message is settled exactly once: acked if and only *)
(* if its handler completed without an exception, otherwise nacked with    *)
(* requeue = false, so that it goes to the dead letter exchange and is not *)
(* back in the queue it was delivered from; bytes that do not parse are    *)
(* nacked at delivery; and a handler that throws leaves the consumers of   *)
(* the queue in place.                                                     *)
(***************************************************************************)
C24_SettledOnce ==
    [][
        /\ \A t \in DOMAIN tasks :
               t.kind = "messageHandler" /\ BusBecomes(handlerResolved(Bus, t))
               => ledger'.settled = << [tag |-> t.i, how |-> "ack"] >>
        /\ \A t \in DOMAIN tasks :
               t.kind = "messageHandler" /\ BusBecomes(handlerRejected(Bus, t))
               => /\ ledger'.settled = << [tag |-> t.i, how |-> "nack"] >>
                  /\ broker'.deadLettered = broker.deadLettered + 1
                  /\ \A m \in broker'.ready : m.queue # t.sub.queueName \/ m \in broker.ready
                  /\ broker'.consumers = broker.consumers
        /\ \A m \in broker.ready, consumer \in DOMAIN broker.consumers :
               ~ m.content.json /\ BusBecomes(delivered(Bus, m, consumer))
               => /\ \E tag \in 1..broker'.delivered :
                         ledger'.settled = << [tag |-> tag, how |-> "nack"] >>
                  /\ broker'.deadLettered = broker.deadLettered + 1
    ]_vars

\* a handler the last step has invoked, with the delivery it was invoked for
Invoked(t, d) ==
    /\ t \in DOMAIN tasks' \ DOMAIN tasks
    /\ t.kind = "messageHandler"
    /\ d \in broker'.unacked
    /\ d.tag = t.i

(***************************************************************************)
(* C26, as stated: the payload a handler is invoked with has the domain    *)
(* fields of the published message, equal to the published ones, and a     *)
(* metadata with timestamp and eventId in which the keys of the caller's   *)
(* metadata have the caller's values; and the handler is invoked only for  *)
(* routing keys that the pattern it subscribed with matches.               *)
(***************************************************************************)
C26_RoundTrip ==
    [][ \A t \in DOMAIN tasks', d \in broker'.unacked :
            Invoked(t, d)
            => LET payload == parse(d.message.content)
                   sent == d.message.sent
               IN /\ payload.fields = sent.fields
                  /\ {"timestamp", "eventId"} \subseteq DOMAIN payload.metadata
                  /\ \A k \in DOMAIN sent.metadata : payload.metadata[k] = sent.metadata[k]
                  /\ \A sub \in Subscriptions :
                         sub.handler = d.handler /\ sub.queueName = d.message.queue
                         => topicMatches(d.message.routingKey, sub.routingPattern) ]_vars

(***************************************************************************)
(* C26, amended: the payload a handler is invoked with has the domain      *)
(* fields of the published message as JSON writes them (a field that is    *)
(* undefined is absent, a Date is its ISO string; a field that is a JSON   *)
(* value is unchanged), and a metadata with timestamp and eventId in which *)
(* the keys of the caller's metadata have the caller's values; and the     *)
(* handler is invoked only for routing keys that match a pattern its queue *)
(* is bound with, its own or another subscriber's.                         *)
(***************************************************************************)
C26_RoundTripAsJson ==
    [][ \A t \in DOMAIN tasks', d \in broker'.unacked :
            Invoked(t, d)
            => LET payload == parse(d.message.content)
                   sent == d.message.sent
               IN /\ payload.fields = stringify(sent.fields)
                  /\ \A k \in DOMAIN sent.fields :
                         sent.fields[k].t \in {"string", "null"}
                         => k \in DOMAIN payload.fields /\ payload.fields[k] = sent.fields[k]
                  /\ {"timestamp", "eventId"} \subseteq DOMAIN payload.metadata
                  /\ \A k \in DOMAIN sent.metadata :
                         payload.metadata[k] = toJSON(sent.metadata[k])
                  /\ \E binding \in broker'.bindings :
                         /\ binding.queue = d.message.queue
                         /\ binding.exchange = d.message.exchange
                         /\ topicMatches(d.message.routingKey, binding.pattern) ]_vars

\* handler h2, subscribed with notification.sms on the queue it shares with
\* h1, is running on a message with a Date that was published under
\* notification.email, and h1 on one with metadata of the caller
C26_Witness ==
    /\ \E d \in broker.unacked :
           /\ d.handler = "h2"
           /\ d.message.routingKey = <<"notification", "email">>
           /\ "sentAt" \in DOMAIN d.message.sent.fields
           /\ \E t \in DOMAIN tasks : t.kind = "messageHandler" /\ t.i = d.tag

(***************************************************************************)
(* C31: the wait between a failed attempt and the retry that follows it is *)
(* 1 s, 2 s, 3 s, ... for the first, second, third retry with linear       *)
(* backoff and 2 s, 4 s, 8 s, ... with exponential backoff, and no wait    *)
(* follows the last failed attempt.                                        *)
(***************************************************************************)
C31_BackoffDelays ==
    [][ \A c \in DOMAIN calls :
            calls[c].pc = "awaiting"
            => LET retry == calls[c].attempt + 1
               IN /\ calls'[c].pc = "sleeping"
                     => calls'[c].due - now =
                            IF options.retryBackoff = "linear" THEN retry * 1000
                            ELSE (2 ^ retry) * 1000
                  /\ calls[c].attempt = options.maxRetries => calls'[c].pc # "sleeping" ]_vars

(***************************************************************************)
(* callWithLB of the registry client (lines 296-314).  The registry is     *)
(* taken by what GET /services?name= answers: a list of instances, here    *)
(* their ids.  gets counts the calls that await discoverServices(), called *)
(* lists the calls that went on to a request, with the instances they had  *)
(* to choose from and the one they chose.                                  *)
(***************************************************************************)
MaxLBCalls == 3

Discoveries == { <<>>, <<"u1">>, <<"u1", "u2">>, <<"u1", "u2", "u3">> }

\* lines 296-298: up to the await of discoverServices()
callWithLB(c) == [c EXCEPT !.gets = @ + 1]

\* lines 297 and 300-313: discoverServices() has returned; requestCounter
\* is the local variable of line 297
selected(c, instances) ==
    IF Len(instances) = 0 THEN [c EXCEPT !.gets = @ - 1]
    ELSE LET requestCounter == 0
             serviceIndex == requestCounter % Len(instances)
         IN [c EXCEPT !.gets = @ - 1,
                      !.called = Append(@, [services |-> instances,
                                            service |-> instances[serviceIndex + 1]])]

\* the application calls callWithLB()
CallWithLB ==
    /\ errands > 0
    /\ errands' = errands - 1
    /\ client' = callWithLB(client)
    /\ response' = NoReply
    /\ UNCHANGED <<config, granted, faults, evicted>>
    /\ UNCHANGED outsideClient

\* GET /services?name= is answered 200 with the instances (lines 268-271)
DiscoverResolved ==
    \E instances \in Discoveries :
        /\ client.gets > 0
        /\ client' = selected(client, instances)
        /\ response' = Answer("discover", 200, "", { instances[i] : i \in 1..Len(instances) })
        /\ UNCHANGED <<config, granted, faults, errands, evicted>>
        /\ UNCHANGED outsideClient

\* the request fails and discoverServices() returns [] (lines 276-279)
DiscoverRejected ==
    /\ client.gets > 0
    /\ client' = selected(client, <<>>)
    /\ response' = Answer("discover", 500, "", {})
    /\ UNCHANGED <<config, granted, faults, errands, evicted>>
    /\ UNCHANGED outsideClient

InitLB ==
    /\ BreakerOff
    /\ RegistryOff
    /\ BusOff
    /\ ManagerOff
    /\ now = 1000
    /\ client = NoClient
    /\ config \in ClientConfigs
    /\ response = NoReply
    /\ granted = 0
    /\ faults = 0
    /\ errands = MaxLBCalls
    /\ evicted = {}

NextLB ==
    \/ CallWithLB
    \/ DiscoverResolved
    \/ DiscoverRejected

SpecLB == InitLB /\ [][NextLB]_vars

(***************************************************************************)
(* C32: when discovery returns n >= 2 instances, the k-th call that makes  *)
(* a request (k from 0) goes to instance k mod n of the list, so that      *)
(* calls which got the same list go to its instances in rotation.          *)
(***************************************************************************)
C32_RoundRobin ==
    \A k \in 1..Len(client.called) :
        LET instances == client.called[k].services
        IN Len(instances) >= 2
           => client.called[k].service = instances[((k - 1) % Len(instances)) + 1]

(***************************************************************************)
(* C33: while the breaker is OPEN and resetTimeout has not elapsed since   *)
(* lastFailureTime, no step invokes the wrapped operation, whether the     *)
(* step is the beginning of an execute() call or a retry of a call that    *)
(* began before the breaker opened.                                        *)
(***************************************************************************)
C33_NoInvocationWhileOpen ==
    [][ (state = "OPEN" /\ now - lastFailureTime < options.resetTimeout)
        => opCalls' = opCalls ]_vars

(***************************************************************************)
(* C39: in every state that interleaved execute() calls and reset() can    *)
(* reach, with thresholds of at least 1: a CLOSED breaker has fewer        *)
(* failures than failureThreshold, successCount is positive only in        *)
(* HALF_OPEN, and successCount is below successThreshold.                  *)
(***************************************************************************)
C39_CounterInvariants ==
    /\ options.failureThreshold >= 1
    /\ options.successThreshold >= 1
    /\ state = "CLOSED" => failures < options.failureThreshold
    /\ successCount > 0 => state = "HALF_OPEN"
    /\ successCount >= 0
    /\ successCount < options.successThreshold

\* a success has been counted in HALF_OPEN while the other caller's
\* execute() is still in progress, and the breaker has been CLOSED with a
\* failure counted
C39_Witness ==
    /\ state = "HALF_OPEN"
    /\ successCount = 1
    /\ failures >= options.failureThreshold
    /\ \E c \in Callers : calls[c].pc # "idle"

(***************************************************************************)
(* C34: the sweep removes an instance, from the index of its name and      *)
(* from the records, only if the lastHeartbeat stored at the moment of     *)
(* the removal is older than maxHeartbeatAge; a heartbeat recorded while   *)
(* the sweep is running saves its instance from that sweep.                *)
(***************************************************************************)
C34_SweepSparesLive ==
    [][ (SweepUnindexed \/ SweepDeleted) /\ sweep.key \in DOMAIN hashes
        => /\ "lastHeartbeat" \in DOMAIN hashes[sweep.key]
           /\ expired(hashes[sweep.key], now) ]_vars

(***************************************************************************)
(* C35: whenever no request is being handled and no sweep is running, the  *)
(* records and the name indexes agree: every record has id, name, host and *)
(* port and its id is in the index of its name, and every id of an index   *)
(* has a record under the name of the index.                               *)
(***************************************************************************)
C35_StoreConsistent ==
    (sweep.pc = "idle" /\ \A s \in Slots : requests[s].op = "none")
    => /\ \A key \in DOMAIN hashes :
              /\ {"id", "name", "host", "port"} \subseteq DOMAIN hashes[key]
              /\ hashes[key].id \in smembers(members, hashes[key].name)
       /\ \A name \in DOMAIN members :
              \A id \in members[name] : serviceKey(name, id) \in DOMAIN hashes

(***************************************************************************)
(* C36: from the moment deregister() has succeeded until the application   *)
(* calls register() again, the client sends no heartbeat, starts no        *)
(* registration and has no heartbeat timer, whatever completes in the      *)
(* meantime: a heartbeat that was in flight and is answered 404, or a      *)
(* registration retry timer that was pending.                              *)
(***************************************************************************)
C36_StaysDeregistered ==
    [][ (client.left /\ client'.left)
        => /\ client'.posts <= client.posts
           /\ \A serviceId \in BagToSet(client'.puts) :
                  CopiesIn(serviceId, client'.puts) <= CopiesIn(serviceId, client.puts)
           /\ ~ client'.heartbeatInterval
           /\ client'.serviceId = "" ]_vars

(***************************************************************************)
(* The heartbeat manager of shared/utils/heartbeat-manager.ts.  An action  *)
(* is a call of start() or stop(), a timer callback, or the code of        *)
(* sendHeartbeat() between two of its awaits.  The registry is taken by    *)
(* its answers to PUT /heartbeat: 200 or a failure.                        *)
(***************************************************************************)
MaxManagerInputs == 4

\* options.maxRetries of the constructor
ManagerOptions == {0, 1}

\* lines 25-32
HeartbeatManager(maxRetries) ==
    [NoManager EXCEPT !.maxRetries = orDefault(maxRetries, 3)]

\* lines 68-70: sendHeartbeat() up to the await of statusGetter()
managerSendHeartbeat(m) == [m EXCEPT !.statuses = @ + 1]

\* lines 37-52
start(m) ==
    IF m.intervalId THEN m
    ELSE [managerSendHeartbeat(m) EXCEPT !.intervalId = TRUE]

\* lines 57-63
stop(m) == [m EXCEPT !.intervalId = FALSE]

\* lines 70-75: statusGetter() has resolved and the request is sent
putSent(m) == [m EXCEPT !.statuses = @ - 1, !.puts = @ + 1]

\* lines 77-79
putResolved(m) == [m EXCEPT !.puts = @ - 1, !.retryCount = 0]

\* lines 91-105
handleHeartbeatFailure(m) ==
    IF m.retryCount < m.maxRetries
    THEN [m EXCEPT !.retryCount = @ + 1, !.timeouts = @ + 1]
    ELSE [m EXCEPT !.retryCount = 0]

\* lines 83-85
putRejected(m) == handleHeartbeatFailure([m EXCEPT !.puts = @ - 1])

\* lines 99-101: a retry timer fires
retryDue(m) == managerSendHeartbeat([m EXCEPT !.timeouts = @ - 1])

outsideManager == <<breakerVars, registryVars, clientVars, busVars, now>>

Input(m) == [m EXCEPT !.inputs = @ - 1]

\* the application calls start()
ManagerStart ==
    /\ manager.inputs > 0
    /\ manager' = [start(Input(manager)) EXCEPT !.stopped = FALSE]
    /\ UNCHANGED outsideManager

\* the application calls stop()
ManagerStop ==
    /\ manager.inputs > 0
    /\ manager' = [stop(Input(manager)) EXCEPT !.stopped = TRUE]
    /\ UNCHANGED outsideManager

\* lines 49-51: the interval timer fires
ManagerIntervalDue ==
    /\ manager.intervalId
    /\ manager.inputs > 0
    /\ manager' = managerSendHeartbeat(Input(manager))
    /\ UNCHANGED outsideManager

ManagerPutSent ==
    /\ manager.statuses > 0
    /\ manager' = putSent(manager)
    /\ UNCHANGED outsideManager

\* PUT /heartbeat is answered 200
ManagerPutResolved ==
    /\ manager.puts > 0
    /\ manager' = putResolved(manager)
    /\ UNCHANGED outsideManager

\* PUT /heartbeat fails
ManagerPutRejected ==
    /\ manager.puts > 0
    /\ manager.inputs > 0
    /\ manager' = putRejected(Input(manager))
    /\ UNCHANGED outsideManager

ManagerRetryDue ==
    /\ manager.timeouts > 0
    /\ manager' = retryDue(manager)
    /\ UNCHANGED outsideManager

InitManager ==
    /\ BreakerOff
    /\ RegistryOff
    /\ ClientOff
    /\ BusOff
    /\ now = 1000
    /\ \E maxRetries \in ManagerOptions :
          manager = [HeartbeatManager(maxRetries) EXCEPT !.inputs = MaxManagerInputs]

NextManager ==
    \/ ManagerStart
    \/ ManagerStop
    \/ ManagerIntervalDue
    \/ ManagerPutSent
    \/ ManagerPutResolved
    \/ ManagerPutRejected
    \/ ManagerRetryDue

SpecManager == InitManager /\ [][NextManager]_vars

(***************************************************************************)
(* C40: from the moment stop() has returned until start() is called again, *)
(* no heartbeat request is sent, whether a retry timer of a failed         *)
(* heartbeat was pending when stop() was called or not.                    *)
(***************************************************************************)
C40_StoppedSendsNothing ==
    [][ (manager.stopped /\ manager'.stopped) => manager'.puts <= manager.puts ]_vars

(***************************************************************************)
(* C37: resubscription does not multiply consumers: however many times the *)
(* client has reconnected, there are no more reconnect callbacks           *)
(* registered, and no more consumers on the channel the client holds, than *)
(* the application has made subscribe calls.                               *)
(***************************************************************************)
C37_NoMultiplication ==
    /\ BagCardinality(mq.reconnected) <= ledger.subscriptions
    /\ BagCardinality(Without(broker.consumers, LAMBDA x : x.channel # mq.channel))
           <= ledger.subscriptions

(***************************************************************************)
(* unsubscribeFromEvents of exchanges.ts, on a client that is connected    *)
(* and has one subscription consuming.  ledger.unsubscribed is the set of  *)
(* <<queue, handler>> for which unsubscribeFromEvents has resolved.        *)
(***************************************************************************)
\* the subscription the application has made
subscribed ==
    CHOOSE sub \in Subscriptions : sub.handler = "h1"

\* unsubscribeFromEvents as far as the await of ch.cancel, lines 424-426,
\* with the tag of a consumer of the channel the client holds
unsubscribeFromEvents(b, consumer) ==
    [b EXCEPT !.tasks = @ (+) One(Task("unsubscribeFromEvents", "cancel", "caller",
                                       b.mq.channel,
                                       [NoSubscription EXCEPT !.queueName = consumer.queue,
                                                              !.handler = consumer.handler],
                                       0))]

\* ch.cancel resolved, lines 428-436: the server has removed the consumer,
\* the handler is dropped from eventListeners; the listeners of
\* 'reconnected' are left as they are
cancelResolved(b, t) ==
    [b EXCEPT !.broker.consumers = @ (-) One([queue |-> t.sub.queueName,
                                              channel |-> t.channel,
                                              handler |-> t.sub.handler]),
              !.mq.eventListeners = @ \ { <<t.sub.queueName, t.sub.handler>> },
              !.tasks = @ (-) One(t),
              !.ledger.unsubscribed = @ \cup { <<t.sub.queueName, t.sub.handler>> }]

\* the application unsubscribes once, with the consumer tag its subscribe
\* call returned, while the consumer of that tag is alive
UnsubscribeFromEvents ==
    \E consumer \in DOMAIN broker.consumers :
        /\ mq.initialized
        /\ ledger.reconnected = 0
        /\ consumer.channel = mq.channel
        /\ ledger.unsubscribed = {}
        /\ \A t \in DOMAIN tasks : t.kind # "unsubscribeFromEvents"
        /\ BusBecomes(unsubscribeFromEvents(Bus, consumer))
        /\ UNCHANGED outsideBus

CancelResolved ==
    \E t \in DOMAIN tasks :
        /\ t.pc = "cancel"
        /\ BusBecomes(cancelResolved(Bus, t))
        /\ UNCHANGED outsideBus

\* a client whose initialize() has resolved, whose setupQueues has finished
\* and whose subscribeToEvents call has resolved
InitUnsubscribe ==
    /\ BreakerOff
    /\ RegistryOff
    /\ ClientOff
    /\ ManagerOff
    /\ now = 0
    /\ mq = [NoService EXCEPT !.connection = 1, !.channel = 1, !.initialized = TRUE,
                              !.watching = TRUE,
                              !.eventListeners = { <<subscribed.queueName, subscribed.handler>> },
                              !.reconnected = One(subscribed)]
    /\ broker = [NoBroker EXCEPT
                    !.connections = {1},
                    !.accepted = 1,
                    !.exchanges = { EXCHANGES[i] : i \in 1..Len(EXCHANGES) },
                    !.queues = { [name |-> Declarations[i].queueName,
                                  deadLetterExchange |-> Declarations[i].deadLetterExchange,
                                  messageTtl |-> Declarations[i].messageTtl] :
                                  i \in 1..Len(Declarations) }
                               \cup { [name |-> subscribed.queueName,
                                       deadLetterExchange |-> "dead.letter",
                                       messageTtl |-> 0] },
                    !.bindings = { [queue |-> Declarations[i].queueName,
                                    exchange |-> Declarations[i].exchange,
                                    pattern |-> Declarations[i].routingPattern] :
                                    i \in 1..Len(Declarations) }
                                 \cup { [queue |-> subscribed.queueName,
                                         exchange |-> subscribed.exchange,
                                         pattern |-> subscribed.routingPattern] },
                    !.consumers = One([queue |-> subscribed.queueName, channel |-> 1,
                                       handler |-> subscribed.handler])]
    /\ tasks = EmptyBag
    /\ timers = {}
    /\ ledger = [NoLedger EXCEPT !.calls = 1, !.connected = 1, !.subscriptions = 1]

\* the application unsubscribes and publishes, the connection is lost and
\* the server accepts the connection that replaces it
NextUnsubscribe ==
    \/ UnsubscribeFromEvents
    \/ CancelResolved
    \/ ConnectionLost
    \/ ReconnectDue
    \/ ConnectResolved
    \/ ChannelCreated
    \/ ExchangesAsserted
    \/ QueueCreated
    \/ Consuming
    \/ PublishEvent
    \/ Deliver
    \/ HandlerResolved

SpecUnsubscribe == InitUnsubscribe /\ [][NextUnsubscribe]_vars

(***************************************************************************)
(* C38: once unsubscribeFromEvents(queue, consumerTag, handler) has        *)
(* succeeded, the handler is not invoked again for a message of the queue, *)
(* whether or not the client reconnects afterwards.                        *)
(***************************************************************************)
C38_NotInvokedAfterUnsubscribe ==
    [][
        \A t \in DOMAIN tasks' :
            (/\ t.kind = "messageHandler"
             /\ <<t.sub.queueName, t.sub.handler>> \in ledger.unsubscribed)
            => /\ t \in DOMAIN tasks
               /\ tasks'[t] <= tasks[t]
      ]_vars

====
